---- MODULE Spec2Model ----
(***************************************************************************)
(* Model of the i2yt reel pipeline: the spreadsheet ledger and its client  *)
(* (google_sheets_manager.py), the intake, enrichment and media stages     *)
(* (main_processor.py), the collector, its duplicate cache and its date    *)
(* filter (instagram_scraper.py, instagram_scraper_clean.py,               *)
(* instagram_reel_scraper.py), the rate limiter                            *)
(* (google_sheets_manager.py) and the parallel task runner                 *)
(* (parallel_processor.py), the description extractor                      *)
(* (description_extractor.py) and the Drive manager                        *)
(* (google_drive_manager.py).                                              *)
(*                                                                         *)
(* Encoding of strings.  A spreadsheet cell or a URL is a Python string.   *)
(* It is modelled as the sequence of its "/"-separated path segments       *)
(* (the host part is left out), so that the regular expressions of the     *)
(* code, which all look for "/reel/<id>" or "/p/<id>", can be computed.    *)
(* The empty string is <<>>.  A plain word such as a status is a           *)
(* one-segment cell.  A description fetched by the enrichment stage is     *)
(* the sequence of its tokens (words and whitespace characters).           *)
(***************************************************************************)
EXTENDS Integers, Sequences, FiniteSets, TLC

VARIABLES
    sheet,                 \* the worksheet: sequence of rows, row 1 is the header
    url_cache,             \* GoogleSheetsManager._url_cache, one per manager instance
    cache_loaded,          \* GoogleSheetsManager._cache_loaded, one per manager instance
    existing_reel_ids,     \* InstagramReelScraper.existing_reel_ids
    reel_id_cache_loaded,  \* InstagramReelScraper.reel_id_cache_loaded
    clock,                 \* int(time.time()), in seconds
    ops,                   \* number of operations performed in this run
    last,                  \* what the last operation was called with and returned
    rl,                    \* the RateLimiter object and its call history
    pp,                    \* one process_in_parallel call
    media,                 \* one run of the media stage, row by row
    scroll,                \* one scroll_and_collect_links call
    run                    \* one run_scraping call over the profile URLs

vars == <<sheet, url_cache, cache_loaded, existing_reel_ids,
          reel_id_cache_loaded, clock, ops, last, rl, pp, media, scroll, run>>

(* Bounds of the model *)

MaxOps == 2          \* operations per run
MaxLen == 2          \* length of a URL list handed to an operation
MaxClock == 2        \* seconds the clock may advance
MaxFaults == 1       \* failing API calls within one operation of a stage

(* Small helpers *)

Min(S) == CHOOSE x \in S : \A y \in S : x <= y

Range(s) == {s[i] : i \in 1..Len(s)}

SeqsUpTo(S, n) == UNION {[1..k -> S] : k \in 0..n}

\* the indices i in from..n with keep[i], in increasing order
RECURSIVE SelectIdx(_, _, _)
SelectIdx(keep, from, n) ==
    IF from > n THEN <<>>
    ELSE IF keep[from] THEN <<from>> \o SelectIdx(keep, from + 1, n)
    ELSE SelectIdx(keep, from + 1, n)

(* URLs and the extraction of user names and reel identifiers *)

U1 == <<"alice", "reel", "X">>     \* https://www.instagram.com/alice/reel/X
U2 == <<"reel", "X">>              \* https://www.instagram.com/reel/X : same reel, other URL
U3 == <<"alice", "reel", "Y">>     \* https://www.instagram.com/alice/reel/Y
U4 == <<"alice", "reel">>          \* https://www.instagram.com/alice/reel/ : no identifier

ReelUrls == {U1, U2, U3}
\* the URLs handed to process_new_reels: one of a reel the ledger may hold
\* already, one of another reel
IntakeUrls == {U1, U3}
Urls == ReelUrls \cup {U4}

\* str(int(time.time())) appended to a prefix, as a table over the clock values
UnknownName == <<"unknown_0", "unknown_1", "unknown_2", "unknown_3", "unknown_4">>
ReelTsName == <<"reel_0", "reel_1", "reel_2", "reel_3", "reel_4">>

\* 'unknown_' in reel_id
HasUnknownPrefix(id) == \E k \in 1..Len(UnknownName) : id = UnknownName[k]

\* re.search(r'/(?:m1|m2)/([A-Za-z0-9_-]+)', url): the positions of a marker
\* segment that is followed by an identifier segment
MarkerAt(url, markers) == {i \in 1..(Len(url) - 1) : url[i] \in markers}

\* InstagramReelScraper.extract_reel_id: /(?:p|reel)/<id>, else unknown_<now>
extract_reel_id(url, now) ==
    IF MarkerAt(url, {"p", "reel"}) # {}
    THEN url[Min(MarkerAt(url, {"p", "reel"})) + 1]
    ELSE UnknownName[now + 1]

\* InstagramProcessor.extract_reel_id_from_url: /reel/<id>, else reel_<now>
extract_reel_id_from_url(url, now) ==
    IF MarkerAt(url, {"reel"}) # {}
    THEN url[Min(MarkerAt(url, {"reel"})) + 1]
    ELSE ReelTsName[now + 1]

\* InstagramReelScraper.extract_reel_id_from_url (static): /reel/<id>, else ""
scraper_extract_reel_id_from_url(url) ==
    IF MarkerAt(url, {"reel"}) # {}
    THEN <<url[Min(MarkerAt(url, {"reel"})) + 1]>>
    ELSE <<>>

\* f"@{username}" as a table
AtName(name) == IF name = "alice" THEN "@alice" ELSE "@other"

\* InstagramProcessor.extract_username_from_url:
\* instagram\.com/([^/]+)/?(?:reel/|$), the match is dropped when it is 'reel'
extract_username_from_url(url) ==
    IF Len(url) >= 1 /\ url[1] # "reel" /\ (Len(url) = 1 \/ url[2] = "reel")
    THEN <<AtName(url[1])>>
    ELSE <<"@unknown">>

\* InstagramReelScraper.extract_username_from_url (the instance method, which
\* replaces the static one): the part before /reel/, else "Unknown"
scraper_extract_username_from_url(url) ==
    IF \E i \in 1..Len(url) : url[i] = "reel"
    THEN LET i == Min({j \in 1..Len(url) : url[j] = "reel"})
         IN IF i = 2 /\ url[1] # "reel" THEN <<AtName(url[1])>> ELSE <<"Unknown">>
    ELSE IF Len(url) >= 1 /\ url[1] # "reel" THEN <<AtName(url[1])>>
    ELSE <<"Unknown">>

(* The worksheet *)

expected_headers == << <<"Date">>, <<"Username">>, <<"Link">>, <<"Reel ID">>,
                       <<"Description">>, <<"Status">>, <<"YT Posted Date">>,
                       <<"YT ID">> >>

\* datetime.now().strftime("%d-%b-%y").upper()
current_date == <<"28-JUN-25">>

\* the row written for one reel_data dictionary (batch_add_reels, row_data)
RowOf(reel) == << reel.date, reel.username, reel.url, reel.reel_id,
                  reel.description, reel.status, <<>>, <<>> >>

\* worksheet.update('A{next_row}:H{end_row}', rows): the cells of the range
\* are overwritten, the sheet grows when the range ends below its last row
WriteRange(s, next_row, rows) ==
    LET end_row == next_row + Len(rows) - 1
        n == IF end_row > Len(s) THEN end_row ELSE Len(s)
    IN [i \in 1..n |-> IF i >= next_row /\ i <= end_row
                       THEN rows[i - next_row + 1] ELSE s[i]]

\* worksheet.update_cell(row, col, value)
WriteCell(s, row, col, value) ==
    IF row \in 1..Len(s) THEN [s EXCEPT ![row][col] = value] ELSE s

\* str.lower() on the status words that occur
Lower(c) == IF c = <<"Pending">> THEN <<"pending">> ELSE c

(* Outcomes of one call of the spreadsheet API.  An error is named by the  *)
(* text of its message.                                                    *)

Outcomes == {"ok", "429", "connection reset"}

\* 'quota exceeded' in msg or 'rate limit' in msg or '429' in msg
IsQuotaError(err) == err \in {"quota exceeded", "rate limit", "429"}

max_retries == 3

\* what the API does on each of the successive attempts of one operation
Scripts == [1..max_retries -> Outcomes]
SteadyScripts == {[k \in 1..max_retries |-> o] : o \in Outcomes}

(* GoogleSheetsManager: reads *)

\* the result of a call: it raised err, or returned None, or returned value;
\* st is the state the call leaves behind
Raise(e, st) == [raised |-> TRUE, err |-> e, none |-> FALSE, value |-> <<>>, st |-> st]
ReturnNone(st) == [raised |-> FALSE, err |-> "", none |-> TRUE, value |-> <<>>, st |-> st]
Return(v, st) == [raised |-> FALSE, err |-> "", none |-> FALSE, value |-> v, st |-> st]

\* a result with the number of invocations of the wrapped function
WithAttempts(r, n) ==
    [raised |-> r.raised, err |-> r.err, none |-> r.none, value |-> r.value,
     st |-> r.st, attempts |-> n]

\* retry_on_quota_error.wrapper around func: results[k] is what the k-th
\* invocation of func does, run on the state the invocation before it left
RECURSIVE retry_on_quota_error(_, _)
retry_on_quota_error(results, attempt) ==
    LET r == results[attempt + 1] IN
    IF ~r.raised THEN WithAttempts(r, attempt + 1)
    ELSE IF IsQuotaError(r.err)
         THEN IF attempt < max_retries - 1
              THEN retry_on_quota_error(results, attempt + 1)
              ELSE WithAttempts(ReturnNone(r.st), attempt + 1)
         ELSE WithAttempts(Raise(r.err, r.st), attempt + 1)

\* the body of get_all_data: worksheet.get_all_values() inside try/except,
\* where the except clause logs the error and returns []
get_all_data_body(s, out) ==
    IF out = "ok" THEN Return(s, s) ELSE Return(<<>>, s)

\* get_all_data as its callers see it, under @retry_on_quota_error
get_all_data(s, script) ==
    retry_on_quota_error([k \in 1..max_retries |-> get_all_data_body(s, script[k])], 0)

\* the 1-indexed row numbers of the rows 2.. of all_data that pass the test
\* of the loop, keep[i] being the test's answer for row i
DataRowsWhere(all_data, keep) ==
    SelectIdx([i \in 1..Len(all_data) |-> i >= 2 /\ keep[i]], 1, Len(all_data))

\* get_rows_by_status: row_index of the rows whose column F equals status
get_rows_by_status(s, status, script) ==
    LET all_data == get_all_data(s, script)
        Test(row) == Len(row) >= 6 /\ Lower(row[6]) = Lower(status)
    IN IF all_data.raised \/ all_data.none \/ all_data.value = <<>> THEN <<>>
       ELSE DataRowsWhere(all_data.value,
                          [i \in 1..Len(all_data.value) |-> Test(all_data.value[i])])

\* get_urls_without_descriptions_by_status
get_urls_without_descriptions_by_status(s, status, script) ==
    LET all_data == get_all_data(s, script)
        Test(row) == Len(row) >= 6 /\ row[3] # <<>> /\ row[5] = <<>>
                     /\ Lower(row[6]) = Lower(status)
    IN IF all_data.raised \/ all_data.none \/ all_data.value = <<>> THEN <<>>
       ELSE DataRowsWhere(all_data.value,
                          [i \in 1..Len(all_data.value) |-> Test(all_data.value[i])])

(* GoogleSheetsManager: the URL cache.  A manager state m is a record      *)
(* [sheet, cache, loaded]: the worksheet and the two cache fields.         *)

\* _load_url_cache
load_url_cache(m, script) ==
    IF m.loaded THEN m
    ELSE LET all_data == get_all_data(m.sheet, script) IN
         IF all_data.raised THEN m
         ELSE IF ~all_data.none /\ all_data.value # <<>>
              THEN [m EXCEPT !.cache = m.cache \cup
                        {all_data.value[i][3] : i \in
                            {j \in 2..Len(all_data.value) :
                                Len(all_data.value[j]) > 2 /\ all_data.value[j][3] # <<>>}},
                             !.loaded = TRUE]
              ELSE [m EXCEPT !.loaded = TRUE]

\* url_exists: the manager after the call, and the answer
url_exists(m, url, script) ==
    LET m1 == IF ~m.loaded THEN load_url_cache(m, script) ELSE m
    IN [m |-> m1, result |-> url \in m1.cache]

(* GoogleSheetsManager: writes *)

\* batch_add_reels_body with the URLs cached only once the write succeeded
batch_add_reels_body_cache_after_write(m, reels_data, out) ==
    IF reels_data = <<>> THEN ReturnNone(m)
    ELSE LET all_values == get_all_data(m.sheet, out.read) IN
         IF all_values.raised \/ all_values.none THEN ReturnNone(m)
         ELSE LET next_row == Len(all_values.value) + 1
                  batch_data == [i \in 1..Len(reels_data) |-> RowOf(reels_data[i])]
                  cache1 == m.cache \cup
                            {reels_data[i].url : i \in
                                {j \in 1..Len(reels_data) : reels_data[j].url # <<>>}}
              IN IF out.write = "ok"
                 THEN ReturnNone([m EXCEPT !.cache = cache1,
                                  !.sheet = WriteRange(m.sheet, next_row, batch_data)])
                 ELSE ReturnNone(m)

\* the body of batch_add_reels, inside its try/except that logs every error;
\* out.read is the script of the read that finds the next row, out.write the
\* outcome of worksheet.update
batch_add_reels_body(m, reels_data, out) ==
    IF reels_data = <<>> THEN ReturnNone(m)
    ELSE LET all_values == get_all_data(m.sheet, out.read) IN
         IF all_values.raised \/ all_values.none THEN ReturnNone(m)
         ELSE LET next_row == Len(all_values.value) + 1
                  batch_data == [i \in 1..Len(reels_data) |-> RowOf(reels_data[i])]
                  cache1 == m.cache \cup
                            {reels_data[i].url : i \in
                                {j \in 1..Len(reels_data) : reels_data[j].url # <<>>}}
              IN IF out.write = "ok"
                 THEN ReturnNone([m EXCEPT !.cache = cache1,
                                  !.sheet = WriteRange(m.sheet, next_row, batch_data)])
                 ELSE ReturnNone([m EXCEPT !.cache = cache1])

\* batch_add_reels as its callers see it, under @retry_on_quota_error
batch_add_reels(m, reels_data, script) ==
    LET results[k \in 1..max_retries] ==
            batch_add_reels_body(IF k = 1 THEN m ELSE results[k - 1].st,
                                 reels_data, script[k])
    IN retry_on_quota_error(results, 0)

\* update_cell: worksheet.update_cell inside try/except that logs the error
update_cell(s, row, col, value, out) ==
    IF out = "ok" THEN WriteCell(s, row, col, value) ELSE s

\* update_status: column F
update_status(s, row, status, out) == update_cell(s, row, 6, status, out)

\* update_description that writes into the status column
update_description_status_column(s, row, description, out) ==
    update_cell(s, row, 6, description, out)

\* update_description: column E
update_description(s, row, description, out) == update_cell(s, row, 5, description, out)

\* update_file_id that stores the file id in the last column of the row
update_file_id_stores_file_id(s, row, file_id) == WriteCell(s, row, 8, <<file_id>>)

\* update_file_id: does nothing (the file id is not stored in the sheet)
update_file_id(s, row, file_id) == s

(* Connecting to the ledger: GoogleSheetsManager.ensure_headers and the    *)
(* header check of setup_google_sheets in instagram_reel_scraper.py        *)

\* a list of cells without the empty cells at its end
RECURSIVE TrimRight(_)
TrimRight(row) ==
    IF row # <<>> /\ row[Len(row)] = <<>> THEN TrimRight(SubSeq(row, 1, Len(row) - 1))
    ELSE row

\* worksheet.row_values(row)
row_values(s, row) == IF row \in 1..Len(s) THEN TrimRight(s[row]) ELSE <<>>

\* worksheet.clear(): no cell holds a value
clear(s) == <<>>

\* worksheet.append_row(values): the row after the last row that holds a value
append_row(s, values) == Append(s, values)

\* ensure_headers: read is the outcome of row_values(1), write the one of
\* worksheet.update('A1:H1', ...); setup_status_dropdown sets validation and
\* formatting only
ensure_headers(s, read, write) ==
    IF read # "ok" THEN s
    ELSE LET current_headers == row_values(s, 1) IN
         IF current_headers = <<>> \/ current_headers # expected_headers
         THEN (IF write = "ok" THEN WriteRange(s, 1, <<expected_headers>>) ELSE s)
         ELSE s

\* the header row the reel scraper of instagram_reel_scraper.py expects,
\* seven names
reel_scraper_headers == << <<"Date">>, <<"Insta Username">>, <<"Link">>, <<"Reel ID">>,
                           <<"Status">>, <<"YT Posted Date">>, <<"Shorts ID">>, <<>> >>

\* the header check of setup_google_sheets: outs.read, outs.clear and
\* outs.append are the outcomes of row_values(1), clear() and append_row(),
\* outs.again the one of the append_row of the except clause
setup_google_sheets(s, outs) ==
    LET fallback(t) == IF outs.again = "ok" THEN append_row(t, reel_scraper_headers) ELSE t
    IN IF outs.read # "ok" THEN fallback(s)
       ELSE LET headers == row_values(s, 1) IN
            IF headers = <<>> \/ headers # TrimRight(reel_scraper_headers)
            THEN IF outs.clear # "ok" THEN fallback(s)
                 ELSE IF outs.append # "ok" THEN fallback(clear(s))
                 ELSE append_row(clear(s), reel_scraper_headers)
            ELSE s

\* col_values(4)[1:] without the empty cells and 'N/A': the identifiers the
\* reel scraper loads at the end of setup_google_sheets
reel_scraper_existing_ids(s, out) ==
    IF out # "ok" THEN {}
    ELSE {s[i][4] : i \in {j \in 2..Len(s) : s[j][4] # <<>> /\ s[j][4] # <<"N/A">>}}

(* Description extraction: DescriptionExtractor.extract_description.  A    *)
(* text is a sequence of tokens: a whitespace character, or a piece of a   *)
(* word that holds no whitespace.                                          *)

\* the whitespace characters that occur: space, tab, line break
Whitespace == {" ", "\t", "\n"}

IsSpace(c) == c \in Whitespace

\* str.strip(): without the leading and the trailing whitespace
RECURSIVE strip(_)
strip(t) ==
    IF t = <<>> THEN <<>>
    ELSE IF IsSpace(Head(t)) THEN strip(Tail(t))
    ELSE IF IsSpace(t[Len(t)]) THEN strip(SubSeq(t, 1, Len(t) - 1))
    ELSE t

\* str.split(): the words of the text, a word being a longest run of tokens
\* that are not whitespace; word is the word being read
RECURSIVE split(_, _)
split(t, word) ==
    IF t = <<>> THEN (IF word = <<>> THEN <<>> ELSE <<word>>)
    ELSE IF IsSpace(Head(t))
         THEN (IF word = <<>> THEN <<>> ELSE <<word>>) \o split(Tail(t), <<>>)
         ELSE split(Tail(t), Append(word, Head(t)))

\* ' '.join(words)
RECURSIVE join(_)
join(words) ==
    IF words = <<>> THEN <<>>
    ELSE IF Len(words) = 1 THEN words[1]
    ELSE words[1] \o <<" ">> \o join(Tail(words))

\* the variant of description_single_line that replaces line breaks only
description_single_line_newlines_only(stdout) ==
    LET description == strip(stdout)
    IN [i \in 1..Len(description) |->
            IF description[i] = "\n" THEN " " ELSE description[i]]

\* description_single_line: ' '.join(result.stdout.strip().split())
description_single_line(stdout) == join(split(strip(stdout), <<>>))

\* how the yt-dlp process of one fetch ends: return code 0, another return
\* code, subprocess.TimeoutExpired, or another exception
FetchOutcomes == {"ok", "failed", "timeout", "raise"}

\* extract_description: the description, or None
extract_description(outcome, stdout) ==
    IF outcome = "ok" THEN Return(description_single_line(stdout), <<>>)
    ELSE ReturnNone(<<>>)

(* Intake: InstagramProcessor.process_new_reels and                        *)
(* InstagramReelScraper.save_batch_to_sheets                               *)

\* a description as extract_description returns it (one line)
Desc1 == <<"Line one Line two">>

\* what extract_description returns for every URL of one call: a text, or
\* None, modelled as the empty cell
DescOutcomes == {<<>>, Desc1}

\* the loop "for url in reel_urls: if not url_exists(url)": the manager after
\* the loop and the URLs kept, in input order
RECURSIVE filter_new_urls(_, _, _)
filter_new_urls(m, urls, script) ==
    IF urls = <<>> THEN [m |-> m, new_urls |-> <<>>]
    ELSE LET e == url_exists(m, Head(urls), script)
             rest == filter_new_urls(e.m, Tail(urls), script)
         IN [m |-> rest.m,
             new_urls |-> IF e.result THEN rest.new_urls
                          ELSE <<Head(urls)>> \o rest.new_urls]

\* the reel_data dictionary process_new_reels builds for one URL
processor_reel_data(url, now, description) ==
    [date |-> current_date,
     username |-> extract_username_from_url(url),
     url |-> url,
     reel_id |-> <<extract_reel_id_from_url(url, now)>>,
     status |-> <<"pending">>,
     description |-> description]

\* the reel_data dictionary save_batch_to_sheets builds for one URL
scraper_reel_data(url) ==
    [date |-> current_date,
     username |-> scraper_extract_username_from_url(url),
     url |-> url,
     reel_id |-> scraper_extract_reel_id_from_url(url),
     status |-> <<"pending">>,
     description |-> <<>>]

\* process_new_reels: env.load is the script of the cache load, env.add the
\* script of the batch write, env.desc the outcome of the description fetch
process_new_reels(m, reel_urls, env, now) ==
    LET f == filter_new_urls(m, reel_urls, env.load)
        reels_data == [i \in 1..Len(f.new_urls) |->
                          processor_reel_data(f.new_urls[i], now, env.desc)]
    IN IF f.new_urls = <<>> THEN f.m
       ELSE batch_add_reels(f.m, reels_data, env.add).st

\* save_batch_to_sheets
save_batch_to_sheets(m, links, env) ==
    IF links = <<>> THEN m
    ELSE LET f == filter_new_urls(m, links, env.load)
             reels_data == [i \in 1..Len(f.new_urls) |-> scraper_reel_data(f.new_urls[i])]
         IN IF reels_data # <<>> THEN batch_add_reels(f.m, reels_data, env.add).st
            ELSE f.m

(* Media stage: InstagramProcessor.process_pending_uploads_workflow *)

\* what download_and_upload does for one row: it returns a file id, returns
\* None, or raises
UploadOutcomes == {"file", "none", "raise"}

\* _process_single_upload that marks the row as failed when there is no file id
process_single_upload_marks_failed(s, row_index, upload, cellOut) ==
    IF upload = "file"
    THEN [sheet |-> update_file_id(update_status(s, row_index, <<"processing">>, cellOut),
                                   row_index, "file"),
          ok |-> TRUE]
    ELSE [sheet |-> update_status(s, row_index, <<"failed">>, cellOut), ok |-> FALSE]

\* _process_single_upload: the sheet after the call and the value returned
process_single_upload(s, row_index, upload, cellOut) ==
    IF upload = "file"
    THEN [sheet |-> update_file_id(update_status(s, row_index, <<"processing">>, cellOut),
                                   row_index, "file"),
          ok |-> TRUE]
    ELSE [sheet |-> s, ok |-> FALSE]

\* the loop over pending_rows, one row after the other
RECURSIVE upload_loop(_, _, _, _, _)
upload_loop(s, pending_rows, uploads, cellOuts, k) ==
    IF k > Len(pending_rows) THEN s
    ELSE upload_loop(process_single_upload(s, pending_rows[k], uploads[k], cellOuts[k]).sheet,
                     pending_rows, uploads, cellOuts, k + 1)

\* process_pending_uploads_workflow with uploads enabled
process_pending_uploads_workflow(s, pending_rows, uploads, cellOuts) ==
    IF pending_rows = <<>> THEN s
    ELSE upload_loop(s, pending_rows, uploads, cellOuts, 1)

(* Enrichment stage: InstagramProcessor.process_missing_descriptions *)

\* the loop of process_missing_descriptions in which a fetch that returned
\* nothing is made a second time
RECURSIVE description_loop_second_attempt(_, _, _, _, _, _)
description_loop_second_attempt(s, rows, fetches, cellOuts, k, fetched) ==
    IF k > Len(rows) THEN [sheet |-> s, fetched |-> fetched]
    ELSE LET description == extract_description(fetches[k].outcome, fetches[k].stdout)
             written == ~description.none /\ description.value # <<>>
         IN description_loop_second_attempt(
                IF written
                THEN update_description(s, rows[k], description.value, cellOuts[k])
                ELSE s,
                rows, fetches, cellOuts, k + 1,
                IF written THEN Append(fetched, rows[k])
                ELSE Append(Append(fetched, rows[k]), rows[k]))

\* the loop over pending_urls_without_desc from entry k on: fetches[k] is how
\* the fetch for entry k ends, cellOuts[k] the outcome of its cell write;
\* fetched lists the rows extract_description was called for
RECURSIVE description_loop(_, _, _, _, _, _)
description_loop(s, rows, fetches, cellOuts, k, fetched) ==
    IF k > Len(rows) THEN [sheet |-> s, fetched |-> fetched]
    ELSE LET description == extract_description(fetches[k].outcome, fetches[k].stdout)
         IN description_loop(
                IF ~description.none /\ description.value # <<>>
                THEN update_description(s, rows[k], description.value, cellOuts[k])
                ELSE s,
                rows, fetches, cellOuts, k + 1, Append(fetched, rows[k]))

\* process_missing_descriptions with description extraction enabled
process_missing_descriptions(s, rows, fetches, cellOuts) ==
    IF rows = <<>> THEN [sheet |-> s, fetched |-> <<>>]
    ELSE description_loop(s, rows, fetches, cellOuts, 1, <<>>)

(* GoogleDriveManager: upload_file_to_drive, download_and_upload and       *)
(* cleanup_downloaded_files.  A file id is "file", None is "none".         *)

\* what one call of request.next_chunk() does: it returns without file_info,
\* returns file_info, or raises an error named by a word of its message
ChunkOutcomes == {"progress", "done", "ssl", "timeout", "forbidden"}

\* any(term in error_str for term in [...])
IsTransient(err) == err \in {"ssl", "cipher", "decryption", "network", "timeout"}

chunk_max_retries == 3

MaxChunks == 5

\* the chunk loop in which the third transient error is already the last
RECURSIVE next_chunk_loop_two_retries(_, _, _)
next_chunk_loop_two_retries(script, k, retry_count) ==
    IF script[k] = "done"
    THEN [file_id |-> "file", calls |-> k, retried |-> retry_count]
    ELSE IF script[k] = "progress"
    THEN next_chunk_loop_two_retries(script, k + 1, retry_count)
    ELSE IF IsTransient(script[k]) /\ retry_count + 1 < chunk_max_retries
    THEN next_chunk_loop_two_retries(script, k + 1, retry_count + 1)
    ELSE [file_id |-> "none", calls |-> k, retried |-> retry_count]

\* the loop "while file_info is None and retry_count <= max_retries" from the
\* k-th call of next_chunk on, script[k] being what that call does: the file
\* id returned by upload_file_to_drive, the number of calls made and the
\* number of errors after which the loop went on
RECURSIVE next_chunk_loop(_, _, _)
next_chunk_loop(script, k, retry_count) ==
    IF script[k] = "done"
    THEN [file_id |-> "file", calls |-> k, retried |-> retry_count]
    ELSE IF script[k] = "progress"
    THEN next_chunk_loop(script, k + 1, retry_count)
    ELSE IF IsTransient(script[k]) /\ retry_count + 1 <= chunk_max_retries
    THEN next_chunk_loop(script, k + 1, retry_count + 1)
    ELSE [file_id |-> "none", calls |-> k, retried |-> retry_count]

\* upload_file_to_drive: an error that leaves the loop is caught by the
\* except clauses of the function, which return None
upload_file_to_drive(script) == next_chunk_loop(script, 1, 0)

\* the runs of next_chunk calls of one upload: the last chunk completes the
\* file unless the upload has ended before
UploadScripts ==
    {script \in SeqsUpTo(ChunkOutcomes, MaxChunks) :
        script # <<>> /\ script[Len(script)] = "done"}

\* what os.unlink does
UnlinkOutcomes == {"ok", "PermissionError"}

\* what download_video does: it returns the path of the file, returns None,
\* or raises
DownloadOutcomes == {"file", "none", "raise"}

\* download_and_upload with the first os.unlink outside of a try block
download_and_upload_unlink_unguarded(download, script, delete_local, unlink, final_unlink) ==
    IF download # "file"
    THEN [file_id |-> "none", exists |-> FALSE, log |-> <<"error">>]
    ELSE LET file_id == upload_file_to_drive(script).file_id
             first == file_id # "none" /\ delete_local
             raised == first /\ unlink # "ok"
             exists1 == ~(first /\ unlink = "ok")
             final == exists1 /\ delete_local
         IN [file_id |-> IF raised THEN "none" ELSE file_id,
             exists |-> exists1 /\ ~(final /\ final_unlink = "ok"),
             log |-> (IF file_id = "none" \/ raised THEN <<"error">> ELSE <<>>)
                     \o (IF final /\ final_unlink # "ok" THEN <<"warning">> ELSE <<>>)]

\* download_and_upload: the file id returned, whether the local file is left
\* behind, and the levels of the warnings and errors logged.  unlink is what
\* the os.unlink after the upload does, final_unlink the one of the finally
\* clause
download_and_upload(download, script, delete_local, unlink, final_unlink) ==
    IF download # "file"
    THEN [file_id |-> "none", exists |-> FALSE, log |-> <<"error">>]
    ELSE LET file_id == upload_file_to_drive(script).file_id
             first == file_id # "none" /\ delete_local
             exists1 == ~(first /\ unlink = "ok")
             final == exists1 /\ delete_local
         IN [file_id |-> file_id,
             exists |-> exists1 /\ ~(final /\ final_unlink = "ok"),
             log |-> (IF file_id = "none" THEN <<"error">> ELSE <<>>)
                     \o (IF first /\ unlink # "ok" THEN <<"warning">> ELSE <<>>)
                     \o (IF final /\ final_unlink # "ok" THEN <<"warning">> ELSE <<>>)]

max_attempts == 5

\* the attempts to delete one file in cleanup_downloaded_files from attempt
\* number attempt (counted from 0) on, the first failing os.unlink calls
\* failing: whether the file was deleted, and the levels logged
RECURSIVE cleanup_attempts(_, _, _)
cleanup_attempts(attempt, failing, log) ==
    IF attempt >= max_attempts THEN [cleaned |-> FALSE, log |-> log]
    ELSE IF attempt >= failing THEN [cleaned |-> TRUE, log |-> Append(log, "debug")]
    ELSE cleanup_attempts(attempt + 1, failing,
            Append(log, IF attempt = max_attempts - 1 THEN "warning" ELSE "debug"))

\* cleanup_downloaded_files for a directory that holds one video to delete
cleanup_downloaded_files(failing) == cleanup_attempts(0, failing, <<>>)

(* Collector: the reel-id cache of InstagramReelScraper.  A scraper state  *)
(* sc is a record [ids, loaded].                                           *)

\* load_existing_reel_ids: now is the second in which extract_reel_id runs,
\* now2 the second in which the f-string of the comparison is built
load_existing_reel_ids(sc, s, script, now, now2) ==
    LET all_data == get_all_data(s, script) IN
    IF all_data.raised \/ all_data.none THEN [sc EXCEPT !.loaded = FALSE]
    ELSE LET rows == {j \in 2..Len(all_data.value) :
                         Len(all_data.value[j]) > 1 /\ all_data.value[j][2] # <<>>}
             found == {extract_reel_id(all_data.value[j][2], now) : j \in rows}
         IN [ids |-> sc.ids \cup {id \in found : id # UnknownName[now2 + 1]},
             loaded |-> TRUE]

\* is_duplicate_reel: the scraper after the call, and the answer
is_duplicate_reel(sc, reel_id, s, script, now, now2) ==
    IF reel_id = "" \/ HasUnknownPrefix(reel_id) THEN [sc |-> sc, result |-> FALSE]
    ELSE LET sc1 == IF ~sc.loaded THEN load_existing_reel_ids(sc, s, script, now, now2)
                    ELSE sc
         IN [sc |-> sc1, result |-> reel_id \in sc1.ids]

\* the loop of filter_duplicate_reels: the links kept, in input order
RECURSIVE filter_loop(_, _, _, _)
filter_loop(links, ids, processed_in_batch, now) ==
    IF links = <<>> THEN <<>>
    ELSE LET reel_id == extract_reel_id(Head(links), now) IN
         IF reel_id \in ids \/ reel_id \in processed_in_batch
         THEN filter_loop(Tail(links), ids, processed_in_batch, now)
         ELSE <<Head(links)>> \o
              filter_loop(Tail(links), ids,
                          IF ~HasUnknownPrefix(reel_id)
                          THEN processed_in_batch \cup {reel_id}
                          ELSE processed_in_batch, now)

\* filter_duplicate_reels: the scraper after the call and new_links
filter_duplicate_reels(sc, links, s, script, now, now2) ==
    IF links = <<>> THEN [sc |-> sc, new_links |-> <<>>]
    ELSE LET sc1 == IF ~sc.loaded THEN load_existing_reel_ids(sc, s, script, now, now2)
                    ELSE sc
         IN [sc |-> sc1, new_links |-> filter_loop(links, sc1.ids, {}, now2)]

\* _process_single_link: TRUE when it returns the link, FALSE when it returns None
process_single_link(link, now) == ~HasUnknownPrefix(extract_reel_id(link, now))

\* the validation step of scroll_and_collect_links that follows the filter:
\*   "parallel"           process_in_parallel(filtered_links, _process_single_link)
\*   "sequential_initial" the loop of the initial page scan
\*   "sequential_scroll"  the scroll loop without concurrency: no validation
ValidationModes == {"parallel", "sequential_initial", "sequential_scroll"}

validate_links(filtered_links, mode, now) ==
    IF mode = "sequential_scroll" THEN filtered_links
    ELSE LET keep == [i \in 1..Len(filtered_links) |->
                         process_single_link(filtered_links[i], now)]
         IN [k \in 1..Len(SelectIdx(keep, 1, Len(filtered_links))) |->
                filtered_links[SelectIdx(keep, 1, Len(filtered_links))[k]]]

(* Collector of instagram_scraper_clean.py: the duplicate filter and the   *)
(* validation step that follows it                                         *)

\* the loop of filter_duplicate_reels of instagram_scraper_clean.py: the
\* cache after the loop and the links kept; the identifier of a link that is
\* kept enters the cache at once
RECURSIVE clean_filter_loop(_, _, _)
clean_filter_loop(links, ids, now) ==
    IF links = <<>> THEN [ids |-> ids, new_links |-> <<>>]
    ELSE LET reel_id == extract_reel_id(Head(links), now) IN
         IF reel_id \in ids THEN clean_filter_loop(Tail(links), ids, now)
         ELSE LET rest == clean_filter_loop(Tail(links),
                              IF ~HasUnknownPrefix(reel_id) THEN ids \cup {reel_id}
                              ELSE ids, now)
              IN [ids |-> rest.ids, new_links |-> <<Head(links)>> \o rest.new_links]

\* filter_duplicate_reels of instagram_scraper_clean.py: the scraper after
\* the call and new_links
clean_filter_duplicate_reels(sc, links, s, script, now, now2) ==
    IF links = <<>> THEN [sc |-> sc, new_links |-> <<>>]
    ELSE LET sc1 == IF ~sc.loaded THEN load_existing_reel_ids(sc, s, script, now, now2)
                    ELSE sc
             f == clean_filter_loop(links, sc1.ids, now2)
         IN [sc |-> [sc1 EXCEPT !.ids = f.ids], new_links |-> f.new_links]

\* process_single_link of process_links_parallel: TRUE when it returns the
\* link, FALSE when it returns None
clean_process_single_link(sc, link, s, script, now, now2) ==
    ~is_duplicate_reel(sc, extract_reel_id(link, now2), s, script, now, now2).result

\* process_links_parallel: the links its workers return, in the order of the
\* futures
process_links_parallel(sc, links, s, script, now, now2) ==
    LET keep == [i \in 1..Len(links) |->
                    clean_process_single_link(sc, links[i], s, script, now, now2)]
    IN [k \in 1..Len(SelectIdx(keep, 1, Len(links))) |->
           links[SelectIdx(keep, 1, Len(links))[k]]]

(* RateLimiter (google_sheets_manager.py) *)

\* the length of the window the limiter looks back over, in seconds
Window == 60

\* the number of calls the limiter stays below the ceiling
buffer == 5

\* random.uniform(1, 3), to the second
Jitter == {1, 2, 3}

MaxCeiling == 7
MaxCalls == 12
MaxTicks == 2

\* wait_if_needed that records the call and never sleeps
wait_if_needed_never_sleeps(r, jitter) ==
    LET now == r.now
        calls1 == SelectSeq(r.calls, LAMBDA call_time : now - call_time < Window)
    IN [r EXCEPT !.calls = Append(calls1, now), !.issued = @ + 1, !.proceeded = @ + 1]

\* RateLimiter.wait_if_needed; self.calls[0] of an empty list raises IndexError
wait_if_needed(r, jitter) ==
    LET now == r.now
        calls1 == SelectSeq(r.calls, LAMBDA call_time : now - call_time < Window)
    IN IF Len(calls1) >= r.N - buffer
       THEN IF calls1 = <<>>
            THEN [r EXCEPT !.calls = calls1, !.issued = @ + 1, !.raised = TRUE]
            ELSE LET wait_time == Window - (now - calls1[1]) + jitter IN
                 [r EXCEPT !.calls = <<now>>, !.now = now + wait_time,
                           !.sleeps = @ + 1, !.issued = @ + 1, !.proceeded = @ + 1]
       ELSE [r EXCEPT !.calls = Append(calls1, now), !.issued = @ + 1,
                      !.proceeded = @ + 1]

(* ParallelProcessor (parallel_processor.py) *)

\* what worker_function does for an item: return a result, return None, raise
WorkerOutcomes == {"value", "none", "raise"}

MaxItems == 3

\* _process_sequential whose loop ends at the first item the worker raises for
RECURSIVE process_sequential_abort_on_error(_, _, _, _)
process_sequential_abort_on_error(items, worker, i, results) ==
    IF i > Len(items) THEN results
    ELSE IF worker[items[i]] = "raise" THEN results
    ELSE process_sequential_abort_on_error(items, worker, i + 1,
            IF worker[items[i]] = "value" THEN Append(results, items[i]) ELSE results)

\* the loop of _process_sequential from item i on: the worker's result for an
\* item is the item itself; None is left out; an exception is logged
RECURSIVE process_sequential(_, _, _, _)
process_sequential(items, worker, i, results) ==
    IF i > Len(items) THEN results
    ELSE process_sequential(items, worker, i + 1,
            IF worker[items[i]] = "value" THEN Append(results, items[i]) ELSE results)

\* the calls of progress_callback in the loop of _process_sequential from
\* item i on, found results being in the list: the call is made after a
\* worker that returned, and skipped when the worker raised
RECURSIVE sequential_progress(_, _, _, _)
sequential_progress(items, worker, i, found) ==
    IF i > Len(items) THEN <<>>
    ELSE LET n == IF worker[items[i]] = "value" THEN found + 1 ELSE found IN
         (IF worker[items[i]] = "raise" THEN <<>>
          ELSE << <<i, Len(items), n, i - n>> >>)
         \o sequential_progress(items, worker, i + 1, n)

\* _safe_worker_wrapper that hands an exception of the worker on as a result
safe_worker_wrapper_passes_error(worker, item) ==
    IF worker[item] = "none" THEN <<>> ELSE <<item>>

\* _safe_worker_wrapper: the worker's result, None when it raised
safe_worker_wrapper(worker, item) ==
    IF worker[item] = "value" THEN <<item>> ELSE <<>>

(* ParallelProcessor.get_optimal_workers *)

\* the task types with a configured ceiling, and one without
TaskTypes == {"scraping", "download", "upload", "description", "date_checking", "general"}

MAX_SCRAPING_WORKERS == 4
MAX_DOWNLOAD_WORKERS == 3
MAX_UPLOAD_WORKERS == 2
MAX_DESCRIPTION_WORKERS == 5
MAX_DATE_CHECKING_WORKERS == 6
default_workers == 3

\* worker_limits.get(task_type, 3)
worker_limits(task_type) ==
    IF task_type = "scraping" THEN MAX_SCRAPING_WORKERS
    ELSE IF task_type = "download" THEN MAX_DOWNLOAD_WORKERS
    ELSE IF task_type = "upload" THEN MAX_UPLOAD_WORKERS
    ELSE IF task_type = "description" THEN MAX_DESCRIPTION_WORKERS
    ELSE IF task_type = "date_checking" THEN MAX_DATE_CHECKING_WORKERS
    ELSE default_workers

Max(a, b) == IF a >= b THEN a ELSE b

\* get_optimal_workers without its last assignment workers = max(1, workers)
get_optimal_workers_no_floor(enabled, task_type, item_count, cpu, memory_gb) ==
    IF ~enabled THEN 1
    ELSE LET cpu_count == IF cpu = 0 THEN 4 ELSE cpu
             base_workers == worker_limits(task_type)
             by_resources == IF memory_gb < 4 THEN Min({base_workers, 2})
                             ELSE IF memory_gb < 8 THEN Min({base_workers, cpu_count \div 2})
                             ELSE Min({base_workers, cpu_count})
         IN IF item_count < 5 THEN Min({by_resources, 2})
            ELSE IF item_count < 20 THEN Min({by_resources, by_resources})
            ELSE Min({by_resources, Max(2, by_resources)})

\* get_optimal_workers: enabled is config.ENABLE_CONCURRENT_PROCESSING, cpu
\* what os.cpu_count() returns (0 for None), memory_gb the total memory in GB
get_optimal_workers(enabled, task_type, item_count, cpu, memory_gb) ==
    IF ~enabled THEN 1
    ELSE LET cpu_count == IF cpu = 0 THEN 4 ELSE cpu
             base_workers == worker_limits(task_type)
             by_resources == IF memory_gb < 4 THEN Min({base_workers, 2})
                             ELSE IF memory_gb < 8 THEN Min({base_workers, cpu_count \div 2})
                             ELSE Min({base_workers, cpu_count})
             by_items == IF item_count < 5 THEN Min({by_resources, 2})
                         ELSE IF item_count < 20 THEN Min({by_resources, by_resources})
                         ELSE Min({by_resources, Max(2, by_resources)})
         IN Max(1, by_items)

(* The run of the pipeline as a state machine *)

Managers == {"scraper", "processor"}

Statuses == {<<"pending">>, <<"processing">>, <<"completed">>, <<"failed">>}

\* a row as the intake of an earlier run left it, with its status as the
\* later stages (or the downstream publisher) set it
LedgerRow(url, status) ==
    [RowOf(processor_reel_data(url, 0, <<>>)) EXCEPT ![6] = status]

\* the ledgers a run may start from: the header, and at most one reel
InitialLedgers ==
    {<<expected_headers>>} \cup
    {<<expected_headers, LedgerRow(U1, st)>> : st \in {<<"pending">>, <<"completed">>}}

\* lists without repetition (list(links) of a set of links)
DistinctLists(S, n) == {l \in SeqsUpTo(S, n) : \A i, j \in 1..Len(l) : i # j => l[i] # l[j]}

NoResult == WithAttempts(ReturnNone(<<>>), 0)

\* the record of the last operation: its name and input, and what it did
\*   ok        no API call failed during the operation
\*   repeat    the operation before it was the same call with the same input
\*   fresh     number of distinct URLs of the input that were in no ledger row
\*   appended  number of rows by which the ledger grew
\*   changed   the ledger is not what it was before the operation
\* and of a run of run_full_workflow
\*   wf        the step the run is at
\*   cfg       EXTRACT_DESCRIPTIONS and UPLOAD_TO_GOOGLE_DRIVE of the run
\*   given     the run was given a list of reel URLs that is not empty
\*   ran       the stages called so far, in the order of the calls
\*   failures  the stages in which a call failed
\*   stage     the stage the last step called, "" when it called none
\*   rows      the rows the stage got from its read of the ledger
\*   fetches, uploads, cellOuts   what happened for each of these rows
\*   fetched   the rows extract_description was called for, call by call
\*   returned  what _process_single_upload returned for each row
\* and of a call of the Drive manager
\*   drive     what the call returned and did
\* and of a call of get_optimal_workers
\*   workers   the number returned
NoLast == [op |-> "none", input |-> <<>>, script |-> <<>>,
           filtered |-> <<>>, processed |-> <<>>, mode |-> "", res |-> NoResult,
           ok |-> TRUE, repeat |-> FALSE, fresh |-> 0, appended |-> 0,
           changed |-> FALSE,
           wf |-> "intake", cfg |-> [extract |-> TRUE, upload |-> FALSE],
           given |-> FALSE, ran |-> <<>>, failures |-> {}, stage |-> "", rows |-> <<>>,
           fetches |-> <<>>, uploads |-> <<>>, cellOuts |-> <<>>,
           fetched |-> <<>>, returned |-> <<>>, drive |-> <<>>, workers |-> 0]

\* the URLs in the data rows of a ledger
LedgerUrls(s) == {s[i][3] : i \in 2..Len(s)}

\* a RateLimiter that has not been constructed; once constructed:
\*   N          max_calls_per_minute
\*   calls      self.calls, the recorded call times
\*   now        time.time()
\*   issued     calls of wait_if_needed so far
\*   proceeded  calls of wait_if_needed that returned
\*   sleeps     calls of wait_if_needed that slept
\*   raised     some call of wait_if_needed raised
\*   idle       the time that passed between the calls, sleeps not counted
\*   ticks      the number of times time passed between the calls
RlIdle == [N |-> 0, calls |-> <<>>, now |-> 0, issued |-> 0, proceeded |-> 0,
           sleeps |-> 0, raised |-> FALSE, idle |-> 0, ticks |-> 0]

\* no process_in_parallel call is under way; during a call:
\*   pc                where the call is: "construct", "submit", "collect", "done"
\*   items             the items, numbered in input order
\*   worker            what worker_function does for each item
\*   next              the index of the next item to submit
\*   submitted         the items with a future
\*   submit_failed     the items whose executor.submit raised
\*   ran               the items whose future is finished
\*   yielded           the items whose future as_completed has handed out
\*   results           the result list
\*   completed_count, failed_count   the counters of the pooled path
\*   construct_raised  ThreadPoolExecutor(...) raised
\*   timed_out         as_completed raised TimeoutError
\*   slow              the items whose task was unfinished when it did
\*   waited            the slow items the call waited for before it returned
\*   calls             how often worker_function was invoked, per item
\*   progress          the arguments of the calls of progress_callback, in
\*                     order: <<completed, total, succeeded, failed>>
PpIdle == [pc |-> "idle", items |-> <<>>, worker |-> <<>>, next |-> 1,
           submitted |-> {}, submit_failed |-> {}, ran |-> {}, yielded |-> {},
           results |-> <<>>, completed_count |-> 0, failed_count |-> 0,
           construct_raised |-> FALSE, timed_out |-> FALSE, slow |-> {},
           waited |-> {}, calls |-> <<>>, progress |-> <<>>]

\* no run of the media stage is under way; during a run:
\*   pc        where the run is: "loop", "done"
\*   rows      pending_rows
\*   uploads, cellOuts   what happens for each of these rows
\*   next      the position in pending_rows of the next row of the loop
\*   active    the rows whose download_and_upload is under way
\*   handled   the rows _process_single_upload has returned for, in order
MediaIdle == [pc |-> "idle", rows |-> <<>>, uploads |-> <<>>, cellOuts |-> <<>>,
              next |-> 1, active |-> {}, handled |-> <<>>]

\* the collector before a call of scroll_and_collect_links
\*   pc        "idle", "loop" (at the test of the while loop), "done" (the
\*             call has returned), "returned" (run_scraping has returned)
\*   impl      the module of the collector
\*   target_remaining, batch_size   the argument of the call and
\*             batch_size of the configuration
\*   links, scroll_count, consecutive_no_new_links, last_link_count
\*             the local variables of the call
\*   ids, loaded   existing_reel_ids and reel_id_cache_loaded of the scraper
\*             of instagram_reel_scraper.py
\*   initial   number of links after the initial scan
\*   scrolled  number of iterations that scrolled the page
\*   plateau   number of iterations, up to the last one, in a row that
\*             left the set of links as it was
\*   flushed   the links handed to the last intermediate flush
\*   faults    number of flushes during which an API call failed
\*   reason    why the loop was left
\*   returned  the links of the list returned
MaxUrls == 3         \* profile URLs of the scraping configuration

\* run_scraping before its loop; calls counts the calls of
\* scroll_and_collect_links, late records a profile URL taken up after the
\* total had reached the target
RunIdle == [pc |-> "idle", target_links |-> 0, instagram_urls |-> 0, i |-> 0,
            total_collected |-> 0, all_collected_links |-> <<>>,
            target_reached |-> FALSE, calls |-> 0, late |-> FALSE]

ScrollIdle == [pc |-> "idle", impl |-> "", target_remaining |-> 0, batch_size |-> 0,
               links |-> {}, scroll_count |-> 0,
               consecutive_no_new_links |-> 0, last_link_count |-> 0,
               ids |-> {}, loaded |-> FALSE, initial |-> 0, scrolled |-> 0,
               plateau |-> 0, flushed |-> {}, faults |-> 0, reason |-> "",
               returned |-> {}]

MgrState(mgr) == [sheet |-> sheet, cache |-> url_cache[mgr], loaded |-> cache_loaded[mgr]]

ScraperState == [ids |-> existing_reel_ids, loaded |-> reel_id_cache_loaded]

\* the API behaves the same way on every attempt of one batch write
AddScript(rd, wr) == [k \in 1..max_retries |-> [read |-> rd, write |-> wr]]

\* the number of failing calls among the given outcomes
Faults(outs) == Cardinality({i \in 1..Len(outs) : outs[i] # "ok"})

\* the outcomes of an API call inside a stage operation: every error takes
\* the same path there, the except clause of the call's own body
StageOutcomes == {"ok", "connection reset"}
StageScripts == {[k \in 1..max_retries |-> o] : o \in StageOutcomes}

\* what happens around one intake operation: the read of the cache load, the
\* read that finds the next row, the write, and the description fetch
IntakeEnvs ==
    {e \in [load : StageScripts, rd : StageScripts, wr : StageOutcomes,
             desc : DescOutcomes] :
        Faults(<<e.load[1], e.rd[1], e.wr>>) + (IF e.desc = <<>> THEN 1 ELSE 0)
            <= MaxFaults}

\* the rows of 1..p that fail in one run of the media stage
FailingRows(p) == {F \in SUBSET (1..p) : Cardinality(F) <= MaxFaults}

(* Collector: scroll_and_collect_links of instagram_scraper.py and of      *)
(* instagram_reel_scraper.py.  The links collected are a set; a collector  *)
(* state c is the record described at ScrollIdle.                          *)

MaxScrolls == 6      \* max_scrolls of the scraping configuration
MaxTarget == 2       \* largest target_links of the configuration
MaxBatch == 2        \* largest batch_size of the configuration

\* ENABLE_CONCURRENT_PROCESSING of the configuration
ENABLE_CONCURRENT_PROCESSING == TRUE

\* the two collectors of the repository, named by their module
Collectors == {"instagram_scraper", "instagram_reel_scraper"}

\* consecutive scrolls without a new link after which the collector stops
no_new_links_default == 3
no_new_links_with_target == 5
\* the same, when the height of the page did not change either
no_new_links_same_height == 2
\* the threshold of instagram_reel_scraper.py
reel_scraper_no_new_links == 3

\* target_reached_before_loop that wants more links than the target
target_reached_before_loop_exceeded(target_remaining, count) ==
    target_remaining > 0 /\ count > target_remaining

\* "target_remaining > 0 and len(links) >= target_remaining", the test that
\* precedes the loop
target_reached_before_loop(target_remaining, count) ==
    target_remaining > 0 /\ count >= target_remaining

\* target_reached without the test that a target is set
target_reached_any_target(target_remaining, count) ==
    count >= target_remaining

\* "target_remaining > 0 and new_count >= target_remaining", the first test
\* of an iteration
target_reached(target_remaining, count) ==
    target_remaining > 0 /\ count >= target_remaining

\* should_save_batch that waits for more than batch_size new links
should_save_batch_exceeded(batch_size, new_count, last_link_count) ==
    batch_size > 0 /\ new_count > last_link_count + batch_size

\* "batch_size > 0 and new_count >= last_link_count + batch_size"
should_save_batch(batch_size, new_count, last_link_count) ==
    batch_size > 0 /\ new_count >= last_link_count + batch_size

\* max_no_new_links
max_no_new_links(target_remaining) ==
    IF target_remaining > 0 THEN no_new_links_with_target ELSE no_new_links_default

loop_continues_once_more(scroll_count) == scroll_count <= MaxScrolls

\* the test of the while loop
loop_continues(scroll_count) == scroll_count < MaxScrolls

\* the stop conditions at the end of an iteration: the reason to leave the
\* loop, "" to go on
stop_condition(impl, target_remaining, same_height, consecutive_no_new_links) ==
    IF impl = "instagram_scraper"
    THEN IF same_height /\ consecutive_no_new_links >= no_new_links_same_height
         THEN "end_of_page"
         ELSE IF consecutive_no_new_links >= max_no_new_links(target_remaining)
         THEN "no_new_links"
         ELSE ""
    ELSE IF same_height THEN "end_of_page"
         ELSE IF consecutive_no_new_links >= reel_scraper_no_new_links
         THEN "no_new_links"
         ELSE ""

\* list(links): the links in the order in which the set hands them out,
\* taken to be the order U1, U2, U3
list_of(links) ==
    LET all == <<U1, U2, U3>>
        keep == [i \in 1..Len(all) |-> all[i] \in links]
    IN [k \in 1..Len(SelectIdx(keep, 1, Len(all))) |-> all[SelectIdx(keep, 1, Len(all))[k]]]

\* the return statements: list(links)[:target_remaining] when there are more
\* links than the target, list(links) otherwise; the results that may come
\* out, each as the set of its elements
return_links(links, target_remaining) ==
    IF target_remaining > 0 /\ Cardinality(links) > target_remaining
    THEN {S \in SUBSET links : Cardinality(S) = target_remaining}
    ELSE {links}

\* extract_reel_id of instagram_reel_scraper.py: /(?:reel|p)/<id>/, else
\* None (the empty cell); the hrefs of the page end with "/"
reel_scraper_extract_reel_id(url) ==
    IF MarkerAt(url, {"p", "reel"}) # {}
    THEN <<url[Min(MarkerAt(url, {"p", "reel"})) + 1]>>
    ELSE <<>>

\* extract_username_from_url of instagram_reel_scraper.py: "@" and the
\* first segment of the path
reel_scraper_extract_username_from_url(url) ==
    IF url = <<>> THEN <<"Unknown">>
    ELSE IF url[1] = "reel" THEN <<"@reel">>
    ELSE <<AtName(url[1])>>

\* the loop of filter_duplicate_reels of instagram_reel_scraper.py: the
\* cache after the loop and the links kept
RECURSIVE reel_scraper_filter_loop(_, _)
reel_scraper_filter_loop(links, ids) ==
    IF links = <<>> THEN [ids |-> ids, new_links |-> <<>>]
    ELSE LET reel_id == reel_scraper_extract_reel_id(Head(links)) IN
         IF reel_id # <<>> /\ reel_id \in ids
         THEN reel_scraper_filter_loop(Tail(links), ids)
         ELSE LET rest == reel_scraper_filter_loop(Tail(links),
                              IF reel_id # <<>> /\ reel_id # <<"N/A">>
                              THEN ids \cup {reel_id} ELSE ids)
              IN [ids |-> rest.ids, new_links |-> <<Head(links)>> \o rest.new_links]

\* the row save_to_google_sheets builds for one link
reel_scraper_row(link) ==
    << current_date, reel_scraper_extract_username_from_url(link), link,
       IF reel_scraper_extract_reel_id(link) = <<>> THEN <<"N/A">>
       ELSE reel_scraper_extract_reel_id(link),
       <<"Pending">>, <<>>, <<>>, <<>> >>

\* worksheet.append_rows
append_rows(s, rows) == s \o rows

\* save_to_google_sheets of instagram_reel_scraper.py on the collector state
\* c and the worksheet s: outs.load is the outcome of col_values(4) when the
\* cache is not loaded yet, outs.append the one of append_rows
save_to_google_sheets(c, s, links, outs) ==
    IF links = <<>> THEN [c |-> c, sheet |-> s]
    ELSE LET ids0 == IF c.loaded THEN c.ids
                     ELSE c.ids \cup reel_scraper_existing_ids(s, outs.load)
             f == reel_scraper_filter_loop(links, ids0)
             new_links == [i \in 1..Len(f.new_links) |-> reel_scraper_row(f.new_links[i])]
         IN [c |-> [c EXCEPT !.ids = f.ids, !.loaded = c.loaded \/ outs.load = "ok"],
             sheet |-> IF new_links # <<>> /\ outs.append = "ok"
                       THEN append_rows(s, new_links) ELSE s]

\* one scan of the page: collect_visible_reel_links gave current_links; the
\* scraper's cache after the scan and the links to add to the collection
scan_page(impl, initial, sc, s, current_links, load, now) ==
    IF impl = "instagram_scraper"
    THEN LET f == filter_duplicate_reels(sc, current_links, s, load, now, now)
             mode == IF ENABLE_CONCURRENT_PROCESSING THEN "parallel"
                     ELSE IF initial THEN "sequential_initial"
                     ELSE "sequential_scroll"
         IN [sc |-> f.sc, links |-> Range(validate_links(f.new_links, mode, now))]
    ELSE [sc |-> sc, links |-> Range(current_links)]

\* the intermediate flush of one iteration: save_batch_to_sheets(list(links))
\* on the scraper's manager m, or save_to_google_sheets(list(links)); the
\* collector and the manager after it
flush_links(c, m, list_links, env) ==
    IF c.impl = "instagram_scraper"
    THEN [c |-> c,
          m |-> save_batch_to_sheets(m, list_links,
                                     [load |-> env.load, add |-> AddScript(env.rd, env.wr)])]
    ELSE LET r == save_to_google_sheets(c, m.sheet, list_links,
                                        [load |-> env.load[1], append |-> env.wr])
         IN [c |-> r.c, m |-> [m EXCEPT !.sheet = r.sheet]]

\* the part of scroll_and_collect_links that precedes the loop, the initial
\* scan having added the links found: the test of the target, then the
\* first test of the while loop
before_loop(c, found) ==
    LET c1 == [c EXCEPT !.links = found, !.initial = Cardinality(found)] IN
    IF target_reached_before_loop(c.target_remaining, Cardinality(found))
    THEN [c1 EXCEPT !.pc = "done", !.reason = "target"]
    ELSE IF ~loop_continues(0) THEN [c1 EXCEPT !.pc = "done", !.reason = "max_scrolls"]
    ELSE [c1 EXCEPT !.pc = "loop"]

\* one iteration of the scroll loop after its scroll and its scan, which
\* added the links found: the test of the target, the intermediate flush,
\* the stop conditions, and the next test of the while loop; the collector
\* and the manager after it
scroll_iteration(c, m, found, same_height, list_links, env) ==
    LET links == c.links \cup found
        new_count == Cardinality(links)
        new_links_found == new_count - Cardinality(c.links)
        c1 == [c EXCEPT !.links = links, !.scrolled = @ + 1,
                        !.plateau = IF links = c.links THEN @ + 1 ELSE 0]
    IN IF target_reached(c.target_remaining, new_count)
       THEN [c |-> [c1 EXCEPT !.pc = "done", !.reason = "target"], m |-> m]
       ELSE LET save == should_save_batch(c.batch_size, new_count, c.last_link_count)
                fl == IF save THEN flush_links(c1, m, list_links, env)
                      ELSE [c |-> c1, m |-> m]
                consecutive == IF new_links_found = 0
                               THEN c.consecutive_no_new_links + 1 ELSE 0
                c2 == [fl.c EXCEPT
                         !.last_link_count = IF save THEN new_count ELSE @,
                         !.flushed = IF save THEN links ELSE @,
                         !.faults = IF save /\ Faults(<<env.load[1], env.rd[1], env.wr>>) > 0
                                    THEN @ + 1 ELSE @,
                         !.consecutive_no_new_links = consecutive]
                stop == stop_condition(c.impl, c.target_remaining, same_height, consecutive)
            IN [c |-> IF stop # "" THEN [c2 EXCEPT !.pc = "done", !.reason = stop]
                      ELSE IF ~loop_continues(c.scroll_count + 1)
                      THEN [c2 EXCEPT !.pc = "done", !.reason = "max_scrolls",
                                      !.scroll_count = @ + 1]
                      ELSE [c2 EXCEPT !.scroll_count = @ + 1],
                m |-> fl.m]

Init ==
    /\ sheet \in InitialLedgers
    /\ url_cache = [mgr \in Managers |-> {}]
    /\ cache_loaded = [mgr \in Managers |-> FALSE]
    /\ existing_reel_ids = {}
    /\ reel_id_cache_loaded = FALSE
    /\ clock = 0
    /\ ops = 0
    /\ last = NoLast
    /\ rl = RlIdle
    /\ pp = PpIdle
    /\ media = MediaIdle
    /\ scroll = ScrollIdle
    /\ run = RunIdle

\* time passes
Tick ==
    /\ clock < MaxClock
    /\ clock' = clock + 1
    /\ UNCHANGED <<sheet, url_cache, cache_loaded, existing_reel_ids,
                   reel_id_cache_loaded, ops, last, rl, pp,
                   media, scroll, run>>

\* InstagramProcessor.process_new_reels(reel_urls), on the processor's manager
ProcessNewReels ==
    /\ ops < MaxOps
    /\ \E reel_urls \in SeqsUpTo(IntakeUrls, MaxLen), e \in IntakeEnvs :
          LET m == process_new_reels(MgrState("processor"), reel_urls,
                                     [load |-> e.load, add |-> AddScript(e.rd, e.wr),
                                      desc |-> e.desc],
                                     clock)
          IN /\ sheet' = m.sheet
             /\ url_cache' = [url_cache EXCEPT !["processor"] = m.cache]
             /\ cache_loaded' = [cache_loaded EXCEPT !["processor"] = m.loaded]
             /\ last' = [NoLast EXCEPT !.op = "process_new_reels", !.input = reel_urls,
                     !.ok = (Faults(<<e.load[1], e.rd[1], e.wr>>) = 0),
                     !.repeat = (last.op = "process_new_reels" /\ last.input = reel_urls),
                     !.fresh = Cardinality(Range(reel_urls) \ LedgerUrls(sheet)),
                     !.appended = Len(m.sheet) - Len(sheet),
                     !.changed = (m.sheet # sheet)]
    /\ ops' = ops + 1
    /\ UNCHANGED <<existing_reel_ids, reel_id_cache_loaded, clock, rl, pp,
                   media, scroll, run>>

\* InstagramReelScraper.save_batch_to_sheets(list(links)), on the scraper's manager
SaveBatchToSheets ==
    /\ ops < MaxOps
    /\ \E links \in DistinctLists(ReelUrls, MaxLen), e \in IntakeEnvs :
          LET m == save_batch_to_sheets(MgrState("scraper"), links,
                                        [load |-> e.load, add |-> AddScript(e.rd, e.wr)])
          IN /\ sheet' = m.sheet
             /\ url_cache' = [url_cache EXCEPT !["scraper"] = m.cache]
             /\ cache_loaded' = [cache_loaded EXCEPT !["scraper"] = m.loaded]
             /\ last' = [NoLast EXCEPT !.op = "save_batch_to_sheets",
                     !.ok = (Faults(<<e.load[1], e.rd[1], e.wr>>) = 0),
                     !.appended = Len(m.sheet) - Len(sheet),
                     !.changed = (m.sheet # sheet)]
    /\ ops' = ops + 1
    /\ UNCHANGED <<existing_reel_ids, reel_id_cache_loaded, clock, rl, pp,
                   media, scroll, run>>

\* InstagramProcessor.process_pending_uploads_workflow
ProcessPendingUploads ==
    /\ ops < MaxOps
    /\ \E rd \in StageScripts :
          LET pending_rows == get_rows_by_status(sheet, <<"pending">>, rd) IN
          \E F \in FailingRows(Len(pending_rows)), how \in {"none", "raise", "cell"} :
             LET uploads == [k \in 1..Len(pending_rows) |->
                                IF k \in F /\ how # "cell" THEN how ELSE "file"]
                 cellOuts == [k \in 1..Len(pending_rows) |->
                                IF k \in F /\ how = "cell" THEN "connection reset"
                                ELSE "ok"]
             IN /\ sheet' = process_pending_uploads_workflow(sheet, pending_rows,
                                                             uploads, cellOuts)
                /\ last' = [NoLast EXCEPT !.op = "process_pending_uploads_workflow"]
    /\ ops' = ops + 1
    /\ UNCHANGED <<url_cache, cache_loaded, existing_reel_ids, reel_id_cache_loaded,
                   clock, rl, pp,
                   media, scroll, run>>

\* GoogleSheetsManager.get_all_data(), called on its own
GetAllData ==
    /\ ops < MaxOps
    /\ \E script \in Scripts :
          last' = [NoLast EXCEPT !.op = "get_all_data",
                                 !.script = script, !.ok = (script[1] = "ok"),
                                 !.res = get_all_data(sheet, script)]
    /\ ops' = ops + 1
    /\ UNCHANGED <<sheet, url_cache, cache_loaded, existing_reel_ids,
                   reel_id_cache_loaded, clock, rl, pp,
                   media, scroll, run>>

\* InstagramReelScraper.load_existing_reel_ids()
LoadExistingReelIds ==
    /\ ops < MaxOps
    /\ \E script \in SteadyScripts, now2 \in {clock, clock + 1} :
          /\ now2 <= MaxClock
          /\ LET sc == load_existing_reel_ids(ScraperState, sheet, script, clock, now2)
             IN /\ existing_reel_ids' = sc.ids
                /\ reel_id_cache_loaded' = sc.loaded
          /\ clock' = now2
          /\ last' = [NoLast EXCEPT !.op = "load_existing_reel_ids",
                                    !.script = script, !.ok = (script[1] = "ok")]
    /\ ops' = ops + 1
    /\ UNCHANGED <<sheet, url_cache, cache_loaded, rl, pp,
                   media, scroll, run>>

\* one collection step of scroll_and_collect_links: the visible links are
\* filtered against the cache and then validated
CollectStep ==
    /\ ops < MaxOps
    /\ \E current_links \in DistinctLists(Urls, MaxLen), mode \in ValidationModes,
          script \in SteadyScripts, now2 \in {clock, clock + 1} :
          /\ now2 <= MaxClock
          /\ LET f == filter_duplicate_reels(ScraperState, current_links, sheet,
                                             script, clock, now2)
             IN /\ existing_reel_ids' = f.sc.ids
                /\ reel_id_cache_loaded' = f.sc.loaded
                /\ last' = [NoLast EXCEPT !.op = "collect", !.input = current_links, !.mode = mode,
                                          !.filtered = f.new_links,
                                          !.processed = validate_links(f.new_links, mode, now2)]
          /\ clock' = now2
    /\ ops' = ops + 1
    /\ UNCHANGED <<sheet, url_cache, cache_loaded, rl, pp,
                   media, scroll, run>>

\* one collection step of scroll_and_collect_links of
\* instagram_scraper_clean.py with ENABLE_CONCURRENT_PROCESSING: the visible
\* links go through filter_duplicate_reels, then process_links_parallel
CollectStepClean ==
    /\ ops < MaxOps
    /\ \E current_links \in DistinctLists(Urls, MaxLen), script \in SteadyScripts,
          now2 \in {clock, clock + 1} :
          /\ now2 <= MaxClock
          /\ \E f \in {clean_filter_duplicate_reels(ScraperState, current_links, sheet,
                                                     script, clock, now2)} :
                /\ existing_reel_ids' = f.sc.ids
                /\ reel_id_cache_loaded' = f.sc.loaded
                /\ last' = [NoLast EXCEPT !.op = "collect_clean", !.input = current_links,
                                          !.mode = "parallel",
                                          !.filtered = f.new_links,
                                          !.processed =
                                              process_links_parallel(f.sc, f.new_links, sheet,
                                                                     script, now2, now2)]
          /\ clock' = now2
    /\ ops' = ops + 1
    /\ UNCHANGED <<sheet, url_cache, cache_loaded, rl, pp,
                   media, scroll, run>>

\* the stages of a run that write the ledger
Next ==
    \/ ProcessNewReels
    \/ SaveBatchToSheets
    \/ ProcessPendingUploads

Spec == Init /\ [][Next]_vars

\* the collector's duplicate cache
NextCache ==
    \/ Tick
    \/ LoadExistingReelIds
    \/ CollectStep
    \/ CollectStepClean

SpecCache == Init /\ [][NextCache]_vars

\* GoogleSheetsManager.batch_add_reels(reels_data), called on its own on the
\* scraper's manager; the read that finds the next row succeeds, the write
\* does writes[k] on the k-th attempt
BatchAddReels ==
    /\ ops < MaxOps
    /\ \E url \in ReelUrls, writes \in Scripts :
          LET script == [k \in 1..max_retries |->
                            [read |-> [j \in 1..max_retries |-> "ok"], write |-> writes[k]]]
              r == batch_add_reels(MgrState("scraper"), <<scraper_reel_data(url)>>, script)
          IN /\ sheet' = r.st.sheet
             /\ url_cache' = [url_cache EXCEPT !["scraper"] = r.st.cache]
             /\ cache_loaded' = [cache_loaded EXCEPT !["scraper"] = r.st.loaded]
             /\ last' = [NoLast EXCEPT !.op = "batch_add_reels", !.input = <<url>>,
                     !.script = writes, !.ok = (writes[1] = "ok"),
                     !.res = [r EXCEPT !.st = <<>>],
                     !.appended = Len(r.st.sheet) - Len(sheet),
                     !.changed = (r.st.sheet # sheet)]
    /\ ops' = ops + 1
    /\ UNCHANGED <<existing_reel_ids, reel_id_cache_loaded, clock, rl, pp,
                   media, scroll, run>>

\* intake by the processor alone, one call after the other
NextIntake ==
    \/ ProcessNewReels

SpecIntake == Init /\ [][NextIntake]_vars

\* single calls of the ledger client
NextApi ==
    \/ GetAllData
    \/ BatchAddReels

SpecApi == Init /\ [][NextApi]_vars

(* The rate limiter on its own *)

\* RateLimiter(max_calls_per_minute = N)
RateLimiterNew ==
    /\ rl.N = 0
    /\ \E N \in 1..MaxCeiling : rl' = [RlIdle EXCEPT !.N = N]
    /\ UNCHANGED <<sheet, url_cache, cache_loaded, existing_reel_ids,
                   reel_id_cache_loaded, clock, ops, last, pp,
                   media, scroll, run>>

\* one call of wait_if_needed
WaitIfNeeded ==
    /\ rl.N > 0
    /\ rl.issued < MaxCalls
    /\ \E jitter \in Jitter : rl' = wait_if_needed(rl, jitter)
    /\ UNCHANGED <<sheet, url_cache, cache_loaded, existing_reel_ids,
                   reel_id_cache_loaded, clock, ops, last, pp,
                   media, scroll, run>>

\* time passes between two calls
RlTick ==
    /\ rl.N > 0
    /\ rl.ticks < MaxTicks
    /\ \E d \in {1, Window} :
          rl' = [rl EXCEPT !.now = @ + d, !.idle = @ + d, !.ticks = @ + 1]
    /\ UNCHANGED <<sheet, url_cache, cache_loaded, existing_reel_ids,
                   reel_id_cache_loaded, clock, ops, last, pp,
                   media, scroll, run>>

NextRL ==
    \/ RateLimiterNew
    \/ WaitIfNeeded
    \/ RlTick

SpecRL == Init /\ [][NextRL]_vars

(* One call of process_in_parallel *)

\* the worker has been invoked once more for every item of the set
Invoked(calls, S) == [i \in 1..Len(calls) |-> IF i \in S THEN calls[i] + 1 ELSE calls[i]]

\* process_in_parallel(items, worker_function) up to the construction of the
\* pool: an empty list returns [], a single item or
\* ENABLE_CONCURRENT_PROCESSING = False runs _process_sequential
ProcessInParallel ==
    /\ pp.pc = "idle"
    /\ \E n \in 0..MaxItems, concurrent \in BOOLEAN :
       \E worker \in [1..n -> WorkerOutcomes] :
          LET items == [i \in 1..n |-> i]
              start == [PpIdle EXCEPT !.items = items, !.worker = worker,
                                      !.calls = [i \in 1..n |-> 0]]
          IN pp' = IF n = 0 THEN [start EXCEPT !.pc = "done"]
                   ELSE IF ~concurrent \/ n = 1
                   THEN [start EXCEPT !.pc = "done",
                            !.results = process_sequential(items, worker, 1, <<>>),
                            !.progress = sequential_progress(items, worker, 1, 0),
                            !.calls = Invoked(@, 1..n)]
                   ELSE [start EXCEPT !.pc = "construct"]
    /\ UNCHANGED <<sheet, url_cache, cache_loaded, existing_reel_ids,
                   reel_id_cache_loaded, clock, ops, last, rl,
                   media, scroll, run>>

\* ThreadPoolExecutor(max_workers = workers): the pool exists, or the
\* constructor raises and the except clause returns _process_sequential(...)
PoolConstruct ==
    /\ pp.pc = "construct"
    /\ \E ok \in BOOLEAN :
          pp' = IF ok THEN [pp EXCEPT !.pc = "submit"]
                ELSE [pp EXCEPT !.pc = "done", !.construct_raised = TRUE,
                         !.results = process_sequential(pp.items, pp.worker, 1, <<>>),
                         !.progress = sequential_progress(pp.items, pp.worker, 1, 0),
                         !.calls = Invoked(@, 1..Len(pp.items))]
    /\ UNCHANGED <<sheet, url_cache, cache_loaded, existing_reel_ids,
                   reel_id_cache_loaded, clock, ops, last, rl,
                   media, scroll, run>>

\* executor.submit for the next item: a future, or an exception that is
\* logged and counted as a failure of that item
Submit ==
    /\ pp.pc = "submit"
    /\ \E ok \in BOOLEAN :
          pp' = [pp EXCEPT
                    !.submitted = IF ok THEN @ \cup {pp.next} ELSE @,
                    !.submit_failed = IF ok THEN @ ELSE @ \cup {pp.next},
                    !.failed_count = IF ok THEN @ ELSE @ + 1,
                    !.next = @ + 1,
                    !.pc = IF pp.next = Len(pp.items) THEN "collect" ELSE "submit"]
    /\ UNCHANGED <<sheet, url_cache, cache_loaded, existing_reel_ids,
                   reel_id_cache_loaded, clock, ops, last, rl,
                   media, scroll, run>>

\* a pool thread runs _safe_worker_wrapper for a submitted item
WorkerRun ==
    /\ pp.pc \in {"submit", "collect"}
    /\ \E i \in pp.submitted \ pp.ran :
          pp' = [pp EXCEPT !.ran = @ \cup {i}, !.calls = Invoked(@, {i})]
    /\ UNCHANGED <<sheet, url_cache, cache_loaded, existing_reel_ids,
                   reel_id_cache_loaded, clock, ops, last, rl,
                   media, scroll, run>>

\* as_completed hands out a finished future and the loop body takes its result
AsCompleted ==
    /\ pp.pc = "collect"
    /\ \E i \in pp.ran \ pp.yielded :
          LET result == safe_worker_wrapper(pp.worker, i)
              completed_count == IF result # <<>> THEN pp.completed_count + 1
                                 ELSE pp.completed_count
              failed_count == IF result # <<>> THEN pp.failed_count
                              ELSE pp.failed_count + 1
          IN
          pp' = [pp EXCEPT
                    !.yielded = @ \cup {i},
                    !.results = IF result # <<>> THEN Append(@, result[1]) ELSE @,
                    !.completed_count = completed_count,
                    !.failed_count = failed_count,
                    !.progress = Append(@, <<completed_count + failed_count,
                                             Len(pp.items), completed_count,
                                             failed_count>>)]
    /\ UNCHANGED <<sheet, url_cache, cache_loaded, existing_reel_ids,
                   reel_id_cache_loaded, clock, ops, last, rl,
                   media, scroll, run>>

\* every future has been handed out: the pool shuts down and results is returned
ReturnResults ==
    /\ pp.pc = "collect"
    /\ pp.yielded = pp.submitted
    /\ pp' = [pp EXCEPT !.pc = "done"]
    /\ UNCHANGED <<sheet, url_cache, cache_loaded, existing_reel_ids,
                   reel_id_cache_loaded, clock, ops, last, rl,
                   media, scroll, run>>

\* as_completed raises TimeoutError while a future is unfinished: leaving the
\* with block waits for the tasks still to run, then the except clause
\* returns _process_sequential(...)
WaitTimeout ==
    /\ pp.pc = "collect"
    /\ pp.submitted \ pp.ran # {}
    /\ pp' = [pp EXCEPT !.pc = "done", !.timed_out = TRUE,
                  !.slow = pp.submitted \ pp.ran,
                  !.waited = pp.submitted \ pp.ran,
                  !.ran = pp.submitted,
                  !.results = process_sequential(pp.items, pp.worker, 1, <<>>),
                  !.progress = @ \o sequential_progress(pp.items, pp.worker, 1, 0),
                  !.calls = Invoked(Invoked(@, pp.submitted \ pp.ran), 1..Len(pp.items))]
    /\ UNCHANGED <<sheet, url_cache, cache_loaded, existing_reel_ids,
                   reel_id_cache_loaded, clock, ops, last, rl,
                   media, scroll, run>>

NextPP ==
    \/ ProcessInParallel
    \/ PoolConstruct
    \/ Submit
    \/ WorkerRun
    \/ AsCompleted
    \/ ReturnResults
    \/ WaitTimeout

SpecPP == Init /\ [][NextPP]_vars

(* InstagramProcessor.run_full_workflow, one action per step *)

\* the step after a step of run_full_workflow when a call of the step failed
\* and the failure left the stage function as an exception
after_step_propagates(step, failed) ==
    IF failed THEN "done"
    ELSE IF step = "intake" THEN "enrichment"
    ELSE IF step = "enrichment" THEN "media"
    ELSE "done"

\* the step after a step of run_full_workflow: every stage function catches
\* the exceptions of its calls, so the next statement of the run is reached
\* whether or not a call of the step failed
after_step(step, failed) ==
    IF step = "intake" THEN "enrichment"
    ELSE IF step = "enrichment" THEN "media"
    ELSE "done"

\* what yt-dlp prints for a reel with a description of two lines, and for a
\* reel without a description
stdout_two_lines == <<"Line", "\n", "two">>
stdout_blank == <<"\n">>

\* what goes wrong for the failing rows of one run of the enrichment stage:
\* the fetch fails in one of its ways, prints nothing, or the cell write fails
EnrichmentFaults == (FetchOutcomes \ {"ok"}) \cup {"blank", "cell"}

\* what goes wrong for the failing rows of one run of the media stage
MediaFaults == (UploadOutcomes \ {"file"}) \cup {"cell"}

\* the record of a run between two of its steps
WfLast == [NoLast EXCEPT !.op = "run_full_workflow", !.cfg = last.cfg,
                         !.given = last.given, !.ran = last.ran,
                         !.failures = last.failures]

\* Step 1: process_new_reels(reel_urls) if reel_urls
WfIntake ==
    /\ last.wf = "intake"
    /\ \E reel_urls \in SeqsUpTo(IntakeUrls, MaxLen), e \in IntakeEnvs,
          cfg \in [extract : BOOLEAN, upload : BOOLEAN] :
          LET given == reel_urls # <<>>
              desc == IF cfg.extract THEN e.desc ELSE <<>>
              m == IF given
                   THEN process_new_reels(MgrState("processor"), reel_urls,
                                          [load |-> e.load, add |-> AddScript(e.rd, e.wr),
                                           desc |-> desc],
                                          clock)
                   ELSE MgrState("processor")
              failed == given /\ (Faults(<<e.load[1], e.rd[1], e.wr>>) > 0
                                  \/ (cfg.extract /\ e.desc = <<>>))
          IN /\ sheet' = m.sheet
             /\ url_cache' = [url_cache EXCEPT !["processor"] = m.cache]
             /\ cache_loaded' = [cache_loaded EXCEPT !["processor"] = m.loaded]
             /\ last' = [NoLast EXCEPT !.op = "run_full_workflow", !.cfg = cfg,
                     !.given = given,
                     !.stage = IF given THEN "intake" ELSE "",
                     !.ran = IF given THEN <<"intake">> ELSE <<>>,
                     !.failures = IF failed THEN {"intake"} ELSE {},
                     !.wf = after_step("intake", failed)]
    /\ UNCHANGED <<existing_reel_ids, reel_id_cache_loaded, clock, ops, rl, pp,
                   media, scroll, run>>

\* Step 2: process_missing_descriptions() if config.EXTRACT_DESCRIPTIONS
WfEnrichment ==
    /\ last.wf = "enrichment"
    /\ IF ~last.cfg.extract
       THEN /\ sheet' = sheet
            /\ last' = [WfLast EXCEPT !.wf = after_step("enrichment", FALSE)]
       ELSE \E rd \in StageScripts :
          LET rows == get_urls_without_descriptions_by_status(sheet, <<"pending">>, rd) IN
          \E F \in FailingRows(Len(rows)), how \in EnrichmentFaults :
             LET fetches == [k \in 1..Len(rows) |->
                                IF k \in F /\ how \in FetchOutcomes
                                THEN [outcome |-> how, stdout |-> <<>>]
                                ELSE IF k \in F /\ how = "blank"
                                THEN [outcome |-> "ok", stdout |-> stdout_blank]
                                ELSE [outcome |-> "ok", stdout |-> stdout_two_lines]]
                 cellOuts == [k \in 1..Len(rows) |->
                                IF k \in F /\ how = "cell" THEN "connection reset"
                                ELSE "ok"]
                 r == process_missing_descriptions(sheet, rows, fetches, cellOuts)
                 failed == rd[1] # "ok" \/ F # {}
             IN /\ sheet' = r.sheet
                /\ last' = [WfLast EXCEPT !.stage = "enrichment",
                        !.ran = Append(last.ran, "enrichment"),
                        !.failures = IF failed THEN last.failures \cup {"enrichment"}
                                     ELSE last.failures,
                        !.rows = rows, !.fetches = fetches, !.cellOuts = cellOuts,
                        !.fetched = r.fetched,
                        !.wf = after_step("enrichment", failed)]
    /\ UNCHANGED <<url_cache, cache_loaded, existing_reel_ids, reel_id_cache_loaded,
                   clock, ops, rl, pp,
                   media, scroll, run>>

\* Step 3: process_pending_uploads_workflow() if config.UPLOAD_TO_GOOGLE_DRIVE
WfMedia ==
    /\ last.wf = "media"
    /\ IF ~last.cfg.upload
       THEN /\ sheet' = sheet
            /\ last' = [WfLast EXCEPT !.wf = after_step("media", FALSE)]
       ELSE \E rd \in StageScripts :
          LET pending_rows == get_rows_by_status(sheet, <<"pending">>, rd) IN
          \E F \in FailingRows(Len(pending_rows)), how \in MediaFaults :
             LET uploads == [k \in 1..Len(pending_rows) |->
                                IF k \in F /\ how # "cell" THEN how ELSE "file"]
                 cellOuts == [k \in 1..Len(pending_rows) |->
                                IF k \in F /\ how = "cell" THEN "connection reset"
                                ELSE "ok"]
                 failed == rd[1] # "ok" \/ F # {}
             IN /\ sheet' = process_pending_uploads_workflow(sheet, pending_rows,
                                                             uploads, cellOuts)
                /\ last' = [WfLast EXCEPT !.stage = "media",
                        !.ran = Append(last.ran, "media"),
                        !.failures = IF failed THEN last.failures \cup {"media"}
                                     ELSE last.failures,
                        !.rows = pending_rows, !.uploads = uploads,
                        !.cellOuts = cellOuts,
                        !.returned = [k \in 1..Len(pending_rows) |->
                            process_single_upload(sheet, pending_rows[k], uploads[k],
                                                  cellOuts[k]).ok],
                        !.wf = after_step("media", failed)]
    /\ UNCHANGED <<url_cache, cache_loaded, existing_reel_ids, reel_id_cache_loaded,
                   clock, ops, rl, pp,
                   media, scroll, run>>

NextWorkflow ==
    \/ WfIntake
    \/ WfEnrichment
    \/ WfMedia

SpecWorkflow == Init /\ [][NextWorkflow]_vars

(* GoogleDriveManager on its own: a run of the model makes one call *)

\* GoogleDriveManager.upload_file_to_drive(file_path, filename)
UploadFileToDrive ==
    /\ last.op = "none"
    /\ \E script \in UploadScripts :
          last' = [NoLast EXCEPT !.op = "upload_file_to_drive", !.script = script,
                                 !.drive = upload_file_to_drive(script)]
    /\ UNCHANGED <<sheet, url_cache, cache_loaded, existing_reel_ids,
                   reel_id_cache_loaded, clock, ops, rl, pp,
                   media, scroll, run>>

\* GoogleDriveManager.download_and_upload(url, reel_id)
DownloadAndUpload ==
    /\ last.op = "none"
    /\ \E download \in DownloadOutcomes, script \in UploadScripts,
          delete_local \in BOOLEAN, unlink \in UnlinkOutcomes,
          final_unlink \in UnlinkOutcomes :
          last' = [NoLast EXCEPT !.op = "download_and_upload", !.script = script,
                     !.input = [download |-> download, delete_local |-> delete_local,
                                unlink |-> unlink, final_unlink |-> final_unlink],
                     !.drive = download_and_upload(download, script, delete_local,
                                                   unlink, final_unlink)]
    /\ UNCHANGED <<sheet, url_cache, cache_loaded, existing_reel_ids,
                   reel_id_cache_loaded, clock, ops, rl, pp,
                   media, scroll, run>>

\* GoogleDriveManager.cleanup_downloaded_files(force_cleanup=True)
CleanupDownloadedFiles ==
    /\ last.op = "none"
    /\ \E failing \in 0..max_attempts :
          last' = [NoLast EXCEPT !.op = "cleanup_downloaded_files",
                                 !.input = failing,
                                 !.drive = cleanup_downloaded_files(failing)]
    /\ UNCHANGED <<sheet, url_cache, cache_loaded, existing_reel_ids,
                   reel_id_cache_loaded, clock, ops, rl, pp,
                   media, scroll, run>>

NextDrive ==
    \/ UploadFileToDrive
    \/ DownloadAndUpload
    \/ CleanupDownloadedFiles

SpecDrive == Init /\ [][NextDrive]_vars

(* DescriptionExtractor on its own: a run of the model makes one call *)

MaxText == 4

\* what yt-dlp may print: the texts of at most MaxText tokens, and the text
\* 'Line one<line break>Line two'
Texts ==
    SeqsUpTo(Whitespace \cup {"a"}, MaxText)
        \cup {<<"Line", " ", "one", "\n", "Line", " ", "two">>}

\* DescriptionExtractor.extract_description(url)
ExtractDescription ==
    /\ last.op = "none"
    /\ \E outcome \in FetchOutcomes, stdout \in Texts :
          last' = [NoLast EXCEPT !.op = "extract_description",
                     !.input = [outcome |-> outcome, stdout |-> stdout],
                     !.res = WithAttempts(extract_description(outcome, stdout), 1)]
    /\ UNCHANGED <<sheet, url_cache, cache_loaded, existing_reel_ids,
                   reel_id_cache_loaded, clock, ops, rl, pp,
                   media, scroll, run>>

NextDesc ==
    \/ ExtractDescription

SpecDesc == Init /\ [][NextDesc]_vars

(* Connecting to the ledger *)

\* the outcomes of the calls of one setup_google_sheets
SetupEnvs ==
    {e \in [read : StageOutcomes, clear : StageOutcomes, append : StageOutcomes,
             again : StageOutcomes, ids : StageOutcomes] :
        Faults(<<e.read, e.clear, e.append, e.again, e.ids>>) <= MaxFaults}

\* GoogleSheetsManager(): setup_sheets_client and ensure_headers, for a new
\* manager object of the scraper or of the processor
EnsureHeaders ==
    /\ ops < MaxOps
    /\ \E mgr \in Managers, read \in StageOutcomes, write \in StageOutcomes :
          /\ sheet' = ensure_headers(sheet, read, write)
          /\ url_cache' = [url_cache EXCEPT ![mgr] = {}]
          /\ cache_loaded' = [cache_loaded EXCEPT ![mgr] = FALSE]
          /\ last' = [NoLast EXCEPT !.op = "ensure_headers",
                                    !.input = <<mgr, read, write>>,
                                    !.ok = (read = "ok" /\ write = "ok")]
    /\ ops' = ops + 1
    /\ UNCHANGED <<existing_reel_ids, reel_id_cache_loaded, clock, rl, pp,
                   media, scroll, run>>

\* setup_google_sheets of the reel scraper of instagram_reel_scraper.py: the
\* header check, then load_existing_reel_ids into the new scraper object
SetupGoogleSheets ==
    /\ ops < MaxOps
    /\ \E e \in SetupEnvs :
          LET s == setup_google_sheets(sheet, e) IN
          /\ sheet' = s
          /\ last' = [NoLast EXCEPT !.op = "setup_google_sheets", !.input = e,
                                    !.ok = (Faults(<<e.read, e.clear, e.append,
                                                     e.again, e.ids>>) = 0),
                                    !.processed = reel_scraper_existing_ids(s, e.ids)]
    /\ ops' = ops + 1
    /\ UNCHANGED <<url_cache, cache_loaded, existing_reel_ids, reel_id_cache_loaded,
                   clock, rl, pp,
                   media, scroll, run>>

NextSetup ==
    \/ EnsureHeaders
    \/ SetupGoogleSheets

SpecSetup == Init /\ [][NextSetup]_vars

(* ParallelProcessor.get_optimal_workers on its own: a run of the model    *)
(* makes one call                                                          *)

MaxCount == 21       \* items of a batch
MaxCpu == 8          \* logical cores of the host
MaxMemory == 9       \* total memory of the host, GB

\* ParallelProcessor.get_optimal_workers(task_type, item_count)
GetOptimalWorkers ==
    /\ last.op = "none"
    /\ \E enabled \in BOOLEAN, task_type \in TaskTypes, item_count \in 0..MaxCount,
          cpu \in 0..MaxCpu, memory_gb \in 1..MaxMemory :
          last' = [NoLast EXCEPT !.op = "get_optimal_workers",
                     !.input = [enabled |-> enabled, task_type |-> task_type,
                                item_count |-> item_count, cpu |-> cpu,
                                memory_gb |-> memory_gb],
                     !.workers = get_optimal_workers(enabled, task_type, item_count,
                                                     cpu, memory_gb)]
    /\ UNCHANGED <<sheet, url_cache, cache_loaded, existing_reel_ids,
                   reel_id_cache_loaded, clock, ops, rl, pp,
                   media, scroll, run>>

NextWorkers ==
    \/ GetOptimalWorkers

SpecWorkers == Init /\ [][NextWorkers]_vars

(* The media stage row by row *)

\* the loop of process_pending_uploads_workflow reaches the call for its next
\* row while rows are still under way, as a pool of workers would
may_begin_upload_pooled(md) == md.next <= Len(md.rows)

\* "for i, row_data in enumerate(pending_rows, 1)": the loop reaches the call
\* of _process_single_upload for its next row when the call for the row
\* before has returned
may_begin_upload(md) == md.next <= Len(md.rows) /\ md.active = {}

\* an intake before the media stage runs
IntakeBeforeMedia ==
    /\ ops = 0
    /\ media.pc = "idle"
    /\ ProcessNewReels

\* process_pending_uploads_workflow up to its loop
MediaStart ==
    /\ media.pc = "idle"
    /\ \E rd \in StageScripts :
          LET pending_rows == get_rows_by_status(sheet, <<"pending">>, rd) IN
          \E F \in FailingRows(Len(pending_rows)), how \in MediaFaults :
             media' = [MediaIdle EXCEPT
                          !.pc = IF pending_rows = <<>> THEN "done" ELSE "loop",
                          !.rows = pending_rows,
                          !.uploads = [k \in 1..Len(pending_rows) |->
                                IF k \in F /\ how # "cell" THEN how ELSE "file"],
                          !.cellOuts = [k \in 1..Len(pending_rows) |->
                                IF k \in F /\ how = "cell" THEN "connection reset"
                                ELSE "ok"]]
    /\ UNCHANGED <<sheet, url_cache, cache_loaded, existing_reel_ids,
                   reel_id_cache_loaded, clock, ops, last, rl, pp, scroll, run>>

\* _process_single_upload(row_data) is called: download_and_upload starts
UploadBegin ==
    /\ media.pc = "loop"
    /\ may_begin_upload(media)
    /\ media' = [media EXCEPT !.active = @ \cup {media.next}, !.next = @ + 1]
    /\ UNCHANGED <<sheet, url_cache, cache_loaded, existing_reel_ids,
                   reel_id_cache_loaded, clock, ops, last, rl, pp, scroll, run>>

\* download_and_upload is over and _process_single_upload returns
UploadEnd ==
    /\ media.pc = "loop"
    /\ \E k \in media.active :
          /\ sheet' = process_single_upload(sheet, media.rows[k], media.uploads[k],
                                            media.cellOuts[k]).sheet
          /\ media' = [media EXCEPT !.active = @ \ {k}, !.handled = Append(@, k)]
    /\ UNCHANGED <<url_cache, cache_loaded, existing_reel_ids,
                   reel_id_cache_loaded, clock, ops, last, rl, pp, scroll, run>>

\* the loop is over
MediaEnd ==
    /\ media.pc = "loop"
    /\ media.next > Len(media.rows)
    /\ media.active = {}
    /\ media' = [media EXCEPT !.pc = "done"]
    /\ UNCHANGED <<sheet, url_cache, cache_loaded, existing_reel_ids,
                   reel_id_cache_loaded, clock, ops, last, rl, pp, scroll, run>>

NextMedia ==
    \/ IntakeBeforeMedia
    \/ MediaStart
    \/ UploadBegin
    \/ UploadEnd
    \/ MediaEnd

SpecMedia == Init /\ [][NextMedia]_vars

(* The collector: one call of scroll_and_collect_links, made by            *)
(* run_scraping for the one URL of instagram_urls                          *)

\* what happens around one iteration: the read of a cache load, the read
\* that finds the next row and the write of the flush
FlushEnvs ==
    {e \in [load : StageScripts, rd : StageScripts, wr : StageOutcomes] :
        Faults(<<e.load[1], e.rd[1], e.wr>>) <= MaxFaults}

\* the call up to the first test of the while loop: the load of the reel-id
\* cache, the initial scan of the page and the test of the target
ScrollStart ==
    /\ scroll.pc = "idle"
    /\ \E impl \in Collectors, target_remaining \in 0..MaxTarget,
          batch_size \in 0..MaxBatch, current_links \in DistinctLists(ReelUrls, MaxLen),
          load \in StageScripts :
          \E sc0 \in {IF impl = "instagram_scraper" /\ ~reel_id_cache_loaded
                      THEN load_existing_reel_ids(ScraperState, sheet, load, clock, clock)
                      ELSE ScraperState} :
          \E scan \in {scan_page(impl, TRUE, sc0, sheet, current_links, load, clock)} :
          \E c \in {before_loop([ScrollIdle EXCEPT !.impl = impl,
                                    !.target_remaining = target_remaining,
                                    !.batch_size = batch_size], scan.links)} :
             /\ existing_reel_ids' = scan.sc.ids
             /\ reel_id_cache_loaded' = scan.sc.loaded
             /\ \E returned \in return_links(c.links, target_remaining) :
                   scroll' = IF c.pc = "done" THEN [c EXCEPT !.returned = returned]
                             ELSE c
    /\ UNCHANGED <<sheet, url_cache, cache_loaded, clock, ops, last, rl, pp, media, run>>

\* the environments that make a difference to an iteration: the API is
\* called only for a cache that is not loaded yet and for a flush
IterationEnvs(c, sc, s, current_links) ==
    LET scan == scan_page(c.impl, FALSE, sc, s, current_links,
                          [k \in 1..max_retries |-> "ok"], 0)
        new_count == Cardinality(c.links \cup scan.links)
    IN IF (c.impl = "instagram_scraper" /\ ~sc.loaded /\ current_links # <<>>)
          \/ (~target_reached(c.target_remaining, new_count)
              /\ should_save_batch(c.batch_size, new_count, c.last_link_count))
       THEN FlushEnvs
       ELSE {e \in FlushEnvs : Faults(<<e.load[1], e.rd[1], e.wr>>) = 0}

\* one iteration of the while loop: the scroll, the scan, and the rest of the
\* iteration up to the next test of the loop or the return
ScrollIterate ==
    /\ scroll.pc = "loop"
    /\ \E current_links \in DistinctLists(ReelUrls, MaxLen), same_height \in BOOLEAN :
          \E env \in IterationEnvs(scroll, ScraperState, sheet, current_links) :
          \E scan \in {scan_page(scroll.impl, FALSE, ScraperState, sheet,
                                 current_links, env.load, clock)} :
          \E r \in {scroll_iteration(scroll, MgrState("scraper"), scan.links,
                                     same_height, list_of(scroll.links \cup scan.links),
                                     env)} :
             /\ sheet' = r.m.sheet
             /\ url_cache' = [url_cache EXCEPT !["scraper"] = r.m.cache]
             /\ cache_loaded' = [cache_loaded EXCEPT !["scraper"] = r.m.loaded]
             /\ existing_reel_ids' = scan.sc.ids
             /\ reel_id_cache_loaded' = scan.sc.loaded
             /\ \E returned \in return_links(r.c.links, r.c.target_remaining) :
                   scroll' = IF r.c.pc = "done"
                             THEN [r.c EXCEPT !.returned = returned]
                             ELSE r.c
    /\ UNCHANGED <<clock, ops, last, rl, pp, media, run>>

\* run_scraping after the call: the links are added to all_collected_links,
\* written to the local backup file and returned
RunScrapingReturn ==
    /\ scroll.pc = "done"
    /\ scroll.impl = "instagram_scraper"
    /\ scroll' = [scroll EXCEPT !.pc = "returned"]
    /\ UNCHANGED <<sheet, url_cache, cache_loaded, existing_reel_ids,
                   reel_id_cache_loaded, clock, ops, last, rl, pp, media, run>>

NextScroll ==
    \/ ScrollStart
    \/ ScrollIterate
    \/ RunScrapingReturn

SpecScroll == Init /\ [][NextScroll]_vars

(* run_scraping over the profile URLs (instagram_scraper.py) *)

remaining_target_ignoring_total(target_links, total_collected) ==
    IF target_links > 0 THEN target_links ELSE 0

\* remaining_target of run_scraping: 0 without a target
remaining_target(target_links, total_collected) ==
    IF target_links > 0 THEN target_links - total_collected ELSE 0

\* one pass of the loop over instagram_urls: navigation raises or not, then
\* scroll_and_collect_links raises or returns url_links
run_scraping_url(r, navigation, raises, url_links) ==
    LET next == [r EXCEPT !.i = r.i + 1,
                    !.late = r.late \/ (r.target_links > 0
                                          /\ r.total_collected >= r.target_links)]
        total == r.total_collected + Len(url_links)
    IN IF navigation = "raise" THEN next
       ELSE IF r.target_links > 0
               /\ remaining_target(r.target_links, r.total_collected) <= 0
       THEN [next EXCEPT !.target_reached = TRUE]
       ELSE IF raises THEN [next EXCEPT !.calls = r.calls + 1]
       ELSE IF url_links # <<>>
       THEN [next EXCEPT !.calls = r.calls + 1,
               !.total_collected = total,
               !.all_collected_links = r.all_collected_links \o url_links,
               !.target_reached = r.target_links > 0 /\ total >= r.target_links]
       ELSE [next EXCEPT !.calls = r.calls + 1]

\* run_scraping up to its loop, with the target and the profile URLs of the
\* configuration
RunScrapingStart ==
    /\ run.pc = "idle"
    /\ \E target_links \in 0..MaxTarget, instagram_urls \in 0..MaxUrls :
          run' = [RunIdle EXCEPT !.pc = "loop", !.target_links = target_links,
                    !.instagram_urls = instagram_urls]
    /\ UNCHANGED <<sheet, url_cache, cache_loaded, existing_reel_ids,
                   reel_id_cache_loaded, clock, ops, last, rl, pp, media, scroll>>

\* one profile URL: the page yields the set links, and
\* scroll_and_collect_links returns them cut to the remaining target
RunScrapingUrl ==
    /\ run.pc = "loop"
    /\ ~run.target_reached
    /\ run.i < run.instagram_urls
    /\ \E navigation \in {"ok", "raise"}, raises \in BOOLEAN, links \in SUBSET ReelUrls :
          \E url_links \in return_links(links, remaining_target(run.target_links,
                                                                 run.total_collected)) :
             run' = run_scraping_url(run, navigation, raises, list_of(url_links))
    /\ UNCHANGED <<sheet, url_cache, cache_loaded, existing_reel_ids,
                   reel_id_cache_loaded, clock, ops, last, rl, pp, media, scroll>>

\* the end of the loop (by break or after the last URL), the final statistics
\* and the return of all_collected_links
RunScrapingFinish ==
    /\ run.pc = "loop"
    /\ run.target_reached \/ run.i >= run.instagram_urls
    /\ run' = [run EXCEPT !.pc = "done"]
    /\ UNCHANGED <<sheet, url_cache, cache_loaded, existing_reel_ids,
                   reel_id_cache_loaded, clock, ops, last, rl, pp, media, scroll>>

NextRun ==
    \/ RunScrapingStart
    \/ RunScrapingUrl
    \/ RunScrapingFinish

SpecRun == Init /\ [][NextRun]_vars

(* Date filtering of the candidates of a page (instagram_reel_scraper.py, *)
(* instagram_scraper_clean.py, instagram_scraper.py)                      *)

MaxNumber == 3       \* largest number written in a relative time text
MaxElements == 2     \* time elements found near a candidate

\* days_limit of the configuration (DAYS_LIMIT is 30 in config_template.py)
DaysLimits == {1, 7, 30}

TimeUnits == {"hour", "day", "week", "month", "year", "other"}

\* the relative texts of a time element: '2 hours ago', '3 days ago',
\* '2 weeks ago', '3 months ago', 'last month', '1 year ago', ''; number is the
\* first run of digits of the text, -1 when the text has none. The parser reads
\* the number of a day, week or month text only.
TimeTexts ==
    [unit : {"day", "week", "month"}, number : -1..MaxNumber]
        \cup [unit : {"hour", "year", "other"}, number : {-1}]

NoTimeText == [unit |-> "other", number |-> -1]

\* keyword in time_text, for the keywords is_within_days_limit tests
contains(keyword, time_text) ==
    keyword \in (CASE time_text.unit = "hour" -> {"hour"}
                   [] time_text.unit = "day" -> {"d", "day"}
                   [] time_text.unit = "week" -> {"w", "week"}
                   [] time_text.unit = "month" -> {"month", "mo"}
                   [] time_text.unit = "year" -> {"year"}
                   [] OTHER -> {})

\* InstagramReelScraper.is_within_days_limit(time_text)
is_within_days_limit(time_text, days_limit) ==
    IF \E keyword \in {"second", "minute", "hour", "just now", "now"} :
           contains(keyword, time_text)
    THEN TRUE
    ELSE IF /\ contains("d", time_text) \/ contains("day", time_text)
            /\ time_text.number # -1
    THEN time_text.number <= days_limit
    ELSE IF /\ contains("w", time_text) \/ contains("week", time_text)
            /\ time_text.number # -1
    THEN time_text.number <= days_limit \div 7
    ELSE IF contains("month", time_text) \/ contains("mo", time_text)
    THEN IF time_text.number # -1
         THEN time_text.number * 30 <= days_limit
         ELSE FALSE
    ELSE IF contains("year", time_text) \/ contains("yr", time_text)
    THEN FALSE
    ELSE TRUE

\* a time element near a candidate: its datetime attribute is absent ("none"),
\* a timestamp inside the window ("recent"), one before the cutoff ("old") or
\* a text fromisoformat rejects ("invalid"); an element without the attribute
\* carries a relative text
TimeElements ==
    [datetime : {"none"}, text : TimeTexts]
        \cup [datetime : {"recent", "old", "invalid"}, text : {NoTimeText}]

RECURSIVE check_reel_date_loop(_, _)
\* the loops of check_reel_date over the time elements the selectors find
check_reel_date_loop(time_elements, days_limit) ==
    IF time_elements = <<>> THEN TRUE
    ELSE LET time_elem == Head(time_elements) IN
         IF time_elem.datetime = "recent" THEN TRUE
         ELSE IF time_elem.datetime = "old" THEN FALSE
         ELSE IF time_elem.datetime = "invalid"
         THEN check_reel_date_loop(Tail(time_elements), days_limit)
         ELSE IF is_within_days_limit(time_elem.text, days_limit) THEN TRUE
         ELSE check_reel_date_loop(Tail(time_elements), days_limit)

\* InstagramReelScraper.check_reel_date(reel_element); raises: the body fails
check_reel_date(time_elements, days_limit, raises) ==
    IF raises THEN TRUE ELSE check_reel_date_loop(time_elements, days_limit)

\* config.STRICT_DATE_FILTERING: absent from the configuration, True or False
StrictSettings == {"unset", "True", "False"}

strict_filtering_default_permissive(setting) ==
    IF setting = "unset" THEN FALSE ELSE setting = "True"

\* getattr(config, 'STRICT_DATE_FILTERING', True)
strict_filtering(setting) ==
    IF setting = "unset" THEN TRUE ELSE setting = "True"

\* what get_detailed_reel_date gives: a date inside the window, one before the
\* cutoff, None, or an exception
DetailedOutcomes == {"recent", "old", "none", "raise"}

DateFilters == {"instagram_scraper", "instagram_scraper_clean",
                "instagram_reel_scraper"}

\* InstagramReelScraper.check_reel_date_detailed(reel_url)
check_reel_date_detailed(impl, outcome, setting) ==
    IF outcome = "recent" THEN TRUE
    ELSE IF outcome = "old" THEN FALSE
    ELSE IF impl = "instagram_scraper" THEN FALSE
    ELSE ~strict_filtering(setting)

\* the fast checks of a candidate (no detailed date, default configuration)
FastCheck(time_elements, days_limit, lookup, raises) ==
    [skip_date_check |-> FALSE, use_detailed_date_check |-> FALSE,
     outcome |-> "none", setting |-> "unset", lookup |-> lookup,
     time_elements |-> time_elements, days_limit |-> days_limit,
     raises |-> raises]

\* the detailed checks of a candidate
DetailedCheck(skip_date_check, outcome, setting) ==
    [skip_date_check |-> skip_date_check, use_detailed_date_check |-> TRUE,
     outcome |-> outcome, setting |-> setting, lookup |-> "ok",
     time_elements |-> <<>>, days_limit |-> 30, raises |-> FALSE]

\* what a candidate link of the page may meet in the module impl
Candidates(impl) ==
    (IF impl = "instagram_reel_scraper" THEN {}
     ELSE {DetailedCheck(skip, outcome, setting) :
              skip \in (IF impl = "instagram_scraper" THEN BOOLEAN ELSE {FALSE}),
              outcome \in DetailedOutcomes, setting \in StrictSettings})
    \cup
    (IF impl = "instagram_scraper" THEN {}
     ELSE {FastCheck(time_elements, days_limit, "ok", FALSE) :
              time_elements \in SeqsUpTo(TimeElements, MaxElements),
              days_limit \in DaysLimits}
          \cup {FastCheck(<<>>, 30, "ok", TRUE), FastCheck(<<>>, 30, "raise", FALSE)})

\* collect_visible_reel_links on one candidate: TRUE when the link is appended
\* to recent_links
collect_visible_reel_link(impl, c) ==
    CASE impl = "instagram_scraper" ->
             IF c.skip_date_check THEN TRUE
             ELSE check_reel_date_detailed(impl, c.outcome, c.setting)
      [] impl = "instagram_scraper_clean" ->
             IF c.use_detailed_date_check
             THEN check_reel_date_detailed(impl, c.outcome, c.setting)
             ELSE IF c.lookup = "raise" THEN FALSE
             ELSE check_reel_date(c.time_elements, c.days_limit, c.raises)
      [] OTHER ->
             IF c.lookup = "raise" THEN TRUE
             ELSE check_reel_date(c.time_elements, c.days_limit, c.raises)

\* InstagramReelScraper.check_reel_date(reel_element)
CheckReelDate ==
    /\ last.op = "none"
    /\ \E time_elements \in SeqsUpTo(TimeElements, MaxElements),
          days_limit \in DaysLimits :
          last' = [NoLast EXCEPT !.op = "check_reel_date",
                     !.input = [time_elements |-> time_elements,
                                days_limit |-> days_limit],
                     !.ok = check_reel_date(time_elements, days_limit, FALSE)]
    /\ UNCHANGED <<sheet, url_cache, cache_loaded, existing_reel_ids,
                   reel_id_cache_loaded, clock, ops, rl, pp,
                   media, scroll, run>>

\* collect_visible_reel_links on a page that shows one candidate
CollectVisibleReelLinks ==
    /\ last.op = "none"
    /\ \E impl \in DateFilters :
          \E c \in Candidates(impl) :
             last' = [NoLast EXCEPT !.op = "collect_visible_reel_links",
                        !.mode = impl,
                        !.input = c,
                        !.ok = collect_visible_reel_link(impl, c)]
    /\ UNCHANGED <<sheet, url_cache, cache_loaded, existing_reel_ids,
                   reel_id_cache_loaded, clock, ops, rl, pp,
                   media, scroll, run>>

NextDate ==
    \/ CheckReelDate
    \/ CollectVisibleReelLinks

SpecDate == Init /\ [][NextDate]_vars

(* Properties of the intake and of the status workflow *)
\* the identifier cell and the status cell of a row
ReelIdOf(row) == row[4]
StatusOf(row) == row[6]

\* C1: after any sequence of intake operations, no two data rows of the
\* ledger carry the same reel identifier.
C1_NoDuplicateIdentifier ==
    \A i, j \in 2..Len(sheet) : i # j => ReelIdOf(sheet[i]) # ReelIdOf(sheet[j])

\* C2: process_new_reels(L) called a second time with the same list leaves
\* the ledger as the first call left it: the second call appends no row and
\* changes no row.
C2_IdempotentReintake ==
    (last.op = "process_new_reels" /\ last.repeat) =>
        (~last.changed /\ last.appended = 0)

\* C2 witness: the list ends with a URL that was in no initial ledger, the
\* first call appended it and the second call has been made.
C2_Witness ==
    /\ last.op = "process_new_reels" /\ last.repeat
    /\ last.input # <<>>
    /\ U3 \in Range(last.input) /\ U3 \in LedgerUrls(sheet)

\* C3: with a working ledger, intake appends exactly one row per distinct URL
\* that is not already in the ledger, and every appended row is pending.
C3_OneRowPerDistinctNewUrl ==
    (last.op = "process_new_reels" /\ last.ok) =>
        /\ last.appended = last.fresh
        /\ \A i \in (Len(sheet) - last.appended + 1)..Len(sheet) :
               StatusOf(sheet[i]) = <<"pending">>

\* position of a status along pending -> processing -> completed
StatusRank(st) ==
    IF st = <<"completed">> THEN 2 ELSE IF st = <<"processing">> THEN 1 ELSE 0

\* C4: the status cell of a row never moves backwards: a row that is
\* processing or completed keeps a status at least as advanced in every step.
C4_StatusMonotone ==
    [][\A i \in 2..Len(sheet) :
          StatusOf(sheet[i]) \in {<<"processing">>, <<"completed">>} =>
              /\ i <= Len(sheet')
              /\ StatusRank(StatusOf(sheet'[i])) >= StatusRank(StatusOf(sheet[i]))]_vars

(* Properties of the collector's duplicate cache *)

\* a read of the ledger that succeeds
OkScript == [k \in 1..max_retries |-> "ok"]

\* C5: once load_existing_reel_ids() has completed successfully,
\* is_duplicate_reel(x) is true for every reel identifier x of a data row of
\* the ledger.
C5_CacheHoldsLedgerIds ==
    (last.op = "load_existing_reel_ids" /\ last.ok /\ reel_id_cache_loaded) =>
        \A i \in 2..Len(sheet) :
            ReelIdOf(sheet[i]) # <<>> =>
                is_duplicate_reel(ScraperState, ReelIdOf(sheet[i])[1], sheet,
                                  OkScript, clock, clock).result

\* C6: a link whose identifier cannot be parsed is kept by
\* filter_duplicate_reels and is not dropped by the validation that follows.
C6_UnknownLinkProceeds ==
    last.op = "collect" =>
        \A i \in 1..Len(last.input) :
            HasUnknownPrefix(extract_reel_id(last.input[i], clock)) =>
                /\ last.input[i] \in Range(last.filtered)
                /\ last.input[i] \in Range(last.processed)

(* Properties of the retry decorator of the ledger client *)

\* the number of invocations a retry on quota errors makes for a script: one
\* more for every leading quota error, up to the ceiling
RECURSIVE ExpectedAttempts(_, _)
ExpectedAttempts(script, k) ==
    IF k < max_retries /\ IsQuotaError(script[k]) THEN ExpectedAttempts(script, k + 1)
    ELSE k

\* C7: when the underlying call of get_all_data or batch_add_reels fails with
\* a quota error, the operation is retried, up to three attempts in all.
C7_QuotaErrorIsRetried ==
    (last.op \in {"get_all_data", "batch_add_reels"} /\ IsQuotaError(last.script[1])) =>
        last.res.attempts = ExpectedAttempts(last.script, 1)

\* C8: when the underlying call fails with an error that is not a quota
\* error, the error propagates to the caller at once: no second attempt and no
\* normal return value.
C8_OtherErrorPropagates ==
    (last.op \in {"get_all_data", "batch_add_reels"}
        /\ last.script[1] # "ok" /\ ~IsQuotaError(last.script[1])) =>
        (last.res.raised /\ last.res.attempts = 1)

(* Properties of the rate limiter *)

\* C9: when calls of wait_if_needed are issued within one window, some call
\* has slept by the time the (N+1)th call has proceeded.
C9_SleepBeforeCeilingExceeded ==
    (rl.N > 0 /\ rl.idle < Window /\ rl.proceeded >= rl.N + 1) => rl.sleeps >= 1

C9_Witness ==
    /\ rl.N > buffer
    /\ rl.issued >= rl.N + 5
    /\ rl.idle < Window
    /\ rl.proceeded >= rl.N + 1
    /\ rl.sleeps >= 1

(* Properties of the parallel task runner *)

\* the non-null results of the worker over the items, in input order
SequentialResults(items, worker) == SelectSeq(items, LAMBDA x : worker[x] = "value")

ResultItems == {pp.results[k] : k \in 1..Len(pp.results)}

\* C11: an exception of the worker for one item never aborts the batch:
\* process_in_parallel returns exactly the results of the items for which the
\* worker was called and returned a result, each once, on the pooled and on
\* the sequential path.
C11_FailureIsolation ==
    pp.pc = "done" =>
        /\ ResultItems = {i \in 1..Len(pp.items) :
                             pp.calls[i] >= 1 /\ pp.worker[i] = "value"}
        /\ Len(pp.results) = Cardinality(ResultItems)

C11_Witness ==
    /\ pp.pc = "done"
    /\ ~pp.construct_raised
    /\ ~pp.timed_out
    /\ pp.submitted = {1, 2, 3}
    /\ pp.worker[2] = "raise"
    /\ pp.results = <<3, 1>>

\* C12: a task that is unfinished when the wait times out is abandoned: the
\* call does not wait for it and its item is not in the result list.
C12_SlowTaskAbandoned ==
    (pp.pc = "done" /\ pp.timed_out) =>
        \A i \in pp.slow : i \notin pp.waited /\ i \notin ResultItems

(* Properties of the stages of run_full_workflow *)

\* a step of the run that called the given stage
StageStep(stage) == last.wf = stage /\ last'.stage = stage

\* the number of calls of extract_description for a row
FetchCount(fetched, row) == Cardinality({k \in 1..Len(fetched) : fetched[k] = row})

C14_FailureLeavesPending ==
    [][StageStep("media") =>
          /\ Len(sheet') = Len(sheet)
          /\ \A k \in 1..Len(last'.rows) :
                 last'.uploads[k] # "file" =>
                     /\ ~last'.returned[k]
                     /\ sheet'[last'.rows[k]] = sheet[last'.rows[k]]
                     /\ sheet'[last'.rows[k]][6] = <<"pending">>
          /\ \A i \in 1..Len(sheet) :
                 sheet'[i][6] # sheet[i][6] => sheet'[i][6] = <<"processing">>]_vars

C14_Witness ==
    /\ last.stage = "media"
    /\ \E k, j \in 1..Len(last.rows) :
          /\ last.uploads[k] = "raise" /\ sheet[last.rows[k]][6] = <<"pending">>
          /\ last.uploads[j] = "file" /\ sheet[last.rows[j]][6] = <<"processing">>

\* C17: the enrichment stage adds no row and changes no cell other than the
\* description cell of a row that was pending with an empty description; in
\* particular every status cell is what it was.
C17_EnrichmentWritesDescriptionsOnly ==
    [][StageStep("enrichment") =>
          /\ Len(sheet') = Len(sheet)
          /\ \A i \in 1..Len(sheet) : \A c \in 1..Len(expected_headers) :
                 sheet'[i][c] # sheet[i][c] =>
                     /\ c = 5 /\ i >= 2
                     /\ sheet[i][5] = <<>>
                     /\ Lower(sheet[i][6]) = <<"pending">>]_vars

C17_Witness ==
    /\ last.stage = "enrichment"
    /\ \E k \in 1..Len(last.rows) :
          /\ sheet[last.rows[k]][5] = <<"Line", " ", "two">>
          /\ sheet[last.rows[k]][6] = <<"pending">>
    /\ \E i \in 2..Len(sheet) : sheet[i][6] = <<"completed">>

\* C18: a row whose description fetch fails, times out or raises is left as
\* it was, and extract_description is called once for it in the run of the
\* stage.
C18_FailedFetchLeavesRow ==
    [][StageStep("enrichment") =>
          \A k \in 1..Len(last'.rows) :
              last'.fetches[k].outcome # "ok" =>
                  /\ sheet'[last'.rows[k]] = sheet[last'.rows[k]]
                  /\ FetchCount(last'.fetched, last'.rows[k]) = 1]_vars

C18_Witness ==
    /\ last.stage = "enrichment"
    /\ \E k, j \in 1..Len(last.rows) :
          /\ last.fetches[k].outcome = "timeout" /\ sheet[last.rows[k]][5] = <<>>
          /\ last.fetches[j].outcome = "ok" /\ sheet[last.rows[j]][5] # <<>>

\* the stages a run calls, in the order of the calls
ExpectedStages ==
    (IF last.given THEN <<"intake">> ELSE <<>>)
    \o (IF last.cfg.extract THEN <<"enrichment">> ELSE <<>>)
    \o (IF last.cfg.upload THEN <<"media">> ELSE <<>>)

\* C20: a run of run_full_workflow calls its stages one after the other in
\* the order intake, enrichment, media, and it calls every stage that is
\* enabled whether or not a call inside an earlier stage failed.
C20_StagesRunInOrder ==
    /\ \E n \in 0..Len(ExpectedStages) : last.ran = SubSeq(ExpectedStages, 1, n)
    /\ last.wf = "done" => last.ran = ExpectedStages

C20_Witness ==
    /\ last.wf = "done"
    /\ last.ran = <<"intake", "enrichment", "media">>
    /\ last.failures = {"intake", "enrichment", "media"}

(* Properties of the Drive manager *)

\* the number of transient errors among the first k calls of next_chunk
TransientCount(script, k) == Cardinality({j \in 1..k : IsTransient(script[j])})

\* the k-th call of next_chunk is the last one of the upload: the file is
\* complete, the error is not transient, or it is a transient error after
\* chunk_max_retries earlier ones
Stops(script, k) ==
    \/ script[k] = "done"
    \/ script[k] # "progress" /\ ~IsTransient(script[k])
    \/ IsTransient(script[k]) /\ TransientCount(script, k) > chunk_max_retries

\* C15: upload_file_to_drive goes on after a transient chunk error as long as
\* it is one of the first 3 of the upload, ends without a file id at the 4th
\* transient error or at the first error that is not transient, and returns
\* the file id when the file completes before that.
C15_ChunkRetry ==
    last.op = "upload_file_to_drive" =>
        LET script == last.script
            n == last.drive.calls
        IN /\ n \in 1..Len(script) /\ Stops(script, n)
           /\ \A j \in 1..(n - 1) : ~Stops(script, j)
           /\ last.drive.file_id = IF script[n] = "done" THEN "file" ELSE "none"
           /\ last.drive.retried = TransientCount(script, n - 1)
           /\ last.drive.retried <= chunk_max_retries

C15_Witness ==
    /\ last.op = "upload_file_to_drive"
    /\ last.script = <<"ssl", "timeout", "done">>
    /\ last.drive = [file_id |-> "file", calls |-> 3, retried |-> 2]

\* C16: download_and_upload returns the file id of the upload when the
\* download and the upload succeeded and None otherwise, whatever the
\* os.unlink calls do; a failing os.unlink is logged as a warning and leaves
\* the file behind, and cleanup_downloaded_files logs a file it could not
\* delete in any of its attempts as a warning and nothing as an error.
C16_CleanupKeepsOutcome ==
    /\ last.op = "download_and_upload" =>
          LET in == last.input
              uploaded == in.download = "file"
                          /\ upload_file_to_drive(last.script).file_id = "file"
              attempted == in.download = "file" /\ in.delete_local
              deleted == \/ uploaded /\ in.unlink = "ok"
                         \/ in.final_unlink = "ok"
          IN /\ last.drive.file_id = IF uploaded THEN "file" ELSE "none"
             /\ ("error" \in Range(last.drive.log)) = ~uploaded
             /\ (attempted /\ ~deleted) =>
                    last.drive.exists /\ "warning" \in Range(last.drive.log)
    /\ last.op = "cleanup_downloaded_files" =>
          /\ "error" \notin Range(last.drive.log)
          /\ last.drive.cleaned = (last.input < max_attempts)
          /\ ("warning" \in Range(last.drive.log)) = ~last.drive.cleaned

C16_Witness ==
    /\ last.op = "download_and_upload"
    /\ last.input = [download |-> "file", delete_local |-> TRUE,
                     unlink |-> "PermissionError", final_unlink |-> "PermissionError"]
    /\ last.drive = [file_id |-> "file", exists |-> TRUE,
                     log |-> <<"warning", "warning">>]

(* Properties of the description extractor *)

\* a text with every run of whitespace replaced by one space and without the
\* whitespace at its ends: the tokens kept are those that are not whitespace
\* and the first whitespace of every run that has a word on either side
Collapsed(t) ==
    LET keep == [i \in 1..Len(t) |->
                    \/ ~IsSpace(t[i])
                    \/ /\ i > 1 /\ ~IsSpace(t[i - 1])
                       /\ \E j \in (i + 1)..Len(t) : ~IsSpace(t[j])]
        idx == SelectIdx(keep, 1, Len(t))
    IN [k \in 1..Len(idx) |-> IF IsSpace(t[idx[k]]) THEN " " ELSE t[idx[k]]]

\* C19: the description extract_description returns for a text printed by a
\* successful fetch is that text with every run of spaces, tabs and line
\* breaks replaced by one space and without whitespace at its ends, so it
\* holds no line break and no tab.
C19_DescriptionNormalized ==
    (last.op = "extract_description" /\ last.input.outcome = "ok") =>
        LET d == last.res.value IN
        /\ ~last.res.none
        /\ d = Collapsed(last.input.stdout)
        /\ \A i \in 1..Len(d) : d[i] \notin {"\n", "\t"}
        /\ \A i \in 1..Len(d) :
               d[i] = " " => i > 1 /\ i < Len(d) /\ d[i + 1] # " "

C19_Witness ==
    /\ last.op = "extract_description" /\ last.input.outcome = "ok"
    /\ last.input.stdout = <<"Line", " ", "one", "\n", "Line", " ", "two">>
    /\ last.res.value = <<"Line", " ", "one", " ", "Line", " ", "two">>

(* Properties of the connection to the ledger *)

\* C21: connecting to the ledger deletes no row and changes no data row:
\* after ensure_headers or setup_google_sheets the ledger has at least the
\* rows it had and every row below the header is what it was.
C21_ConnectKeepsDataRows ==
    [][last'.op \in {"ensure_headers", "setup_google_sheets"} =>
          /\ Len(sheet') >= Len(sheet)
          /\ \A i \in 2..Len(sheet) : sheet'[i] = sheet[i]]_vars

(* Properties of the worker sizing *)

\* the bound the host's resources put on the number of workers
ResourceBound(cpu, memory_gb) ==
    LET cpu_count == IF cpu = 0 THEN 4 ELSE cpu
    IN IF memory_gb < 4 THEN 2
       ELSE IF memory_gb < 8 THEN cpu_count \div 2
       ELSE cpu_count

\* C22: with concurrent processing enabled, the only setting in which
\* process_in_parallel asks for it, get_optimal_workers returns the smaller of
\* the ceiling of the task type and the resource-derived bound, at most 2 when
\* there are fewer than 5 items, and at least 1; the number returned is
\* always between 1 and the ceiling.
C22_WorkerSizing ==
    last.op = "get_optimal_workers" =>
        LET in == last.input
            ceiling == worker_limits(in.task_type)
            sized == Min({ceiling, ResourceBound(in.cpu, in.memory_gb)})
        IN /\ in.enabled =>
                  last.workers = Max(1, IF in.item_count < 5 THEN Min({sized, 2}) ELSE sized)
           /\ 1 <= last.workers /\ last.workers <= ceiling

C22_Witness ==
    /\ last.op = "get_optimal_workers"
    /\ last.input = [enabled |-> TRUE, task_type |-> "description", item_count |-> 4,
                     cpu |-> 8, memory_gb |-> 8]
    /\ last.workers = 2

(* Properties of the progress reports *)

\* C23: over a batch progress_callback is called once per item, the k-th
\* call reports k completed tasks of which the succeeded and the failed ones
\* add up to k, and the last call reports completed = total.
C23_ProgressOncePerItem ==
    pp.pc = "done" =>
        /\ Len(pp.progress) = Len(pp.items)
        /\ \A k \in 1..Len(pp.progress) :
               /\ pp.progress[k][1] = k
               /\ pp.progress[k][2] = Len(pp.items)
               /\ pp.progress[k][1] = pp.progress[k][3] + pp.progress[k][4]

(* Properties of the media stage row by row *)

C26_AppendNeverOverwrites ==
    [][last'.op \in {"process_new_reels", "save_batch_to_sheets", "batch_add_reels"} =>
          /\ Len(sheet') >= Len(sheet)
          /\ \A i \in 1..Len(sheet) : sheet'[i] = sheet[i]]_vars

(* Properties of the collector *)

\* the link has a row: a data row that holds the URL, or the identifier of
\* its reel
HasRow(s, link) ==
    \E i \in 2..Len(s) :
        \/ s[i][3] = link
        \/ s[i][4] # <<>> /\ s[i][4] = scraper_extract_reel_id_from_url(link)

Returned == scroll.pc \in {"done", "returned"}

\* C25: when run_scraping has returned, every link of the list it returned
\* has a row in the ledger.
C25_ReturnedLinksAreInLedger ==
    scroll.pc = "returned" => \A link \in scroll.returned : HasRow(sheet, link)

C28_PlateauThreshold ==
    scroll.reason = "no_new_links" =>
        scroll.plateau >= (IF scroll.target_remaining > 0 THEN 5 ELSE 3)

\* C29 as stated: without a target the call ends only when the page is
\* exhausted, and returns every link collected.
C29_RunsToExhaustion ==
    (Returned /\ scroll.target_remaining <= 0) =>
        /\ scroll.reason \in {"end_of_page", "no_new_links"}
        /\ scroll.returned = scroll.links

\* C29: without a target the call never ends on a number of links: it ends
\* when the page is exhausted or when max_scrolls iterations have scrolled
\* the page, and returns every link collected.
C29_RunsToExhaustionOrCeiling ==
    (Returned /\ scroll.target_remaining <= 0) =>
        /\ scroll.reason \in {"end_of_page", "no_new_links", "max_scrolls"}
        /\ scroll.reason = "max_scrolls" => scroll.scrolled = MaxScrolls
        /\ scroll.returned = scroll.links

C29_Witness ==
    /\ scroll.pc = "done"
    /\ scroll.target_remaining = 0
    /\ scroll.reason = "max_scrolls"
    /\ scroll.plateau = 0
    /\ Cardinality(scroll.links) = Cardinality(ReelUrls)
    /\ scroll.returned = scroll.links

\* C30: when the initial scan yields at least target_remaining links, the
\* call scrolls the page not once and returns at most target_remaining
\* links.
C30_TargetMetBeforeScrolling ==
    (scroll.pc # "idle" /\ scroll.target_remaining > 0
                       /\ scroll.initial >= scroll.target_remaining) =>
        /\ Returned
        /\ scroll.scrolled = 0
        /\ Cardinality(scroll.returned) <= scroll.target_remaining
        /\ scroll.returned \subseteq scroll.links

C30_Witness ==
    /\ scroll.pc = "done"
    /\ scroll.target_remaining = 1
    /\ scroll.initial = 2
    /\ scroll.scrolled = 0
    /\ Cardinality(scroll.returned) = 1

(* Further properties of the parallel task runner and of the rate limiter *)

\* C31: within one call of process_in_parallel the worker function is invoked
\* at most once for every item, whatever the pool does.
C31_WorkerInvokedAtMostOnce ==
    \A i \in 1..Len(pp.calls) : pp.calls[i] <= 1

\* C38: wait_if_needed never raises, whatever the ceiling N >= 1 and the
\* history of calls.
C38_WaitNeverRaises ==
    ~rl.raised

(* Further properties of the ledger client and of the collector *)

\* C32: when batch_add_reels has returned, every URL of the manager's URL
\* cache is the URL of a ledger row, also when the write of the batch failed.
C32_CacheBackedByLedger ==
    [][last'.op = "batch_add_reels" =>
          url_cache'["scraper"] \subseteq LedgerUrls(sheet')]_vars

\* C33: in instagram_scraper_clean.py a link that has a reel identifier and
\* passes filter_duplicate_reels is returned by the validation that follows.
C33_FilteredLinkIsKept ==
    last.op = "collect_clean" =>
        \A i \in 1..Len(last.filtered) :
            MarkerAt(last.filtered[i], {"p", "reel"}) # {} =>
                last.filtered[i] \in Range(last.processed)

\* the age in days a relative text states, -1 when it states none
RelativeAge(time_text) ==
    CASE time_text.unit = "year" -> 365
      [] time_text.number = -1 -> -1
      [] time_text.unit = "day" -> time_text.number
      [] time_text.unit = "week" -> 7 * time_text.number
      [] time_text.unit = "month" -> 30 * time_text.number
      [] OTHER -> -1

\* C34: a candidate whose only age information is relative text that states
\* an age beyond the cutoff ('3 months ago' with a 30-day limit) is excluded by
\* check_reel_date.
C34_OldRelativeTextExcluded ==
    (/\ last.op = "check_reel_date"
     /\ last.input.time_elements # <<>>
     /\ \A i \in 1..Len(last.input.time_elements) :
           /\ last.input.time_elements[i].datetime = "none"
           /\ RelativeAge(last.input.time_elements[i].text) > last.input.days_limit)
        => ~last.ok

\* the date check of the candidate ran and could not determine its age
AgeUndetermined ==
    /\ last.op = "collect_visible_reel_links"
    /\ ~last.input.skip_date_check
    /\ IF last.input.use_detailed_date_check
       THEN last.input.outcome \in {"none", "raise"}
       ELSE \/ last.input.lookup = "raise"
            \/ last.input.raises
            \/ last.input.time_elements = <<>>

C37_AtMostMaxScrolls ==
    /\ [](/\ scroll.scrolled <= MaxScrolls
          /\ scroll.pc = "loop" => /\ scroll.scroll_count < MaxScrolls
                                   /\ scroll.scrolled = scroll.scroll_count)
    /\ [][scroll.pc = "loop" =>
             \/ scroll'.pc = "done"
             \/ /\ scroll'.pc = "loop"
                /\ scroll'.scroll_count = scroll.scroll_count + 1]_vars

C37_Witness ==
    /\ scroll.pc = "done"
    /\ scroll.reason = "max_scrolls"
    /\ scroll.scrolled = MaxScrolls
    /\ scroll.impl = "instagram_reel_scraper"
    /\ Cardinality(scroll.links) >= 2
====
